---- MODULE Spec2Model ----
(***************************************************************************)
(* Model of the content-classification / rule engine (config/models.py),   *)
(* of ChatInterface._prepare_context (components/chat_interface.py) and of *)
(* the static code analyzer (services/code_analyzer.py).                   *)
(*                                                                         *)
(* Three specifications:                                                     *)
(*   Spec          the pure functions of the rule engine and _prepare_context:*)
(*                 every action draws its arguments from bounded sets,     *)
(*                 applies the function and records the call and result.   *)
(*   SpecClassify  determine_content_type over texts built from a lexicon  *)
(*                 of concrete fragments.                                  *)
(*   SpecAnalyzer  one CodeAnalyzer object and its snapshot cache under    *)
(*                 arbitrary sequences of analyze_code calls.              *)
(***************************************************************************)
EXTENDS Integers, Sequences, FiniteSets, TLC

VARIABLES
    call,               \* the last pure-function call: operation and arguments
    ret,                \* its return value
    previous_analyses,  \* CodeAnalyzer.previous_analyses: identity -> snapshot
    last,               \* arguments and AnalysisResult of the last analyze_code
    recent,             \* history: per identity, the most recent analyze_code call
    chats,              \* the Firestore collection 'chats': chat id -> document
    handler             \* the LLMHandler: its fields and the frames of its calls

vars == <<call, ret, previous_analyses, last, recent, chats, handler>>

None == "None"

(***************************************************************************)
(* Rule tables                                                             *)
(***************************************************************************)
RuleCategories == {"code", "conversation", "data", "json"}

ANALYSIS_RULES ==
    [c \in RuleCategories |->
        CASE c = "code" ->
               [default   |-> {"no_omissions", "no_overengineering", "maintain_style",
                               "practical_improvements", "actual_code_focus"},
                mandatory |-> {"no_omissions", "maintain_style"}]
          [] c = "conversation" ->
               [default   |-> {"natural_flow", "context_awareness", "appropriate_tone"},
                mandatory |-> {"natural_flow", "context_awareness"}]
          [] c = "data" ->
               [default   |-> {"complete_analysis", "show_insights",
                               "statistical_relevance", "practical_visualization"},
                mandatory |-> {"complete_analysis", "show_insights"}]
          [] c = "json" ->
               [default   |-> {"complete_processing", "show_transformations",
                               "structural_focus", "optimization_suggestions"},
                mandatory |-> {"complete_processing", "structural_focus"}]]

PresetNames == {"conversational", "technical", "full_stack", "data_pipeline"}

\* RULE_PRESETS[p]["enabled_rules"]: a dictionary rule_type -> rules
RULE_PRESETS ==
    [p \in PresetNames |->
        CASE p = "conversational" ->
               [conversation |-> {"natural_flow", "context_awareness", "appropriate_tone"}]
          [] p = "technical" ->
               [code |-> {"no_omissions", "maintain_style", "practical_improvements"},
                data |-> {"complete_analysis", "show_insights"}]
          [] p = "full_stack" ->
               [code |-> {"no_omissions", "maintain_style", "practical_improvements"},
                data |-> {"complete_analysis", "show_insights"},
                api  |-> {"security_check", "performance_check"}]
          [] p = "data_pipeline" ->
               [data   |-> {"complete_analysis", "show_insights", "statistical_relevance"},
                json   |-> {"complete_processing", "show_transformations"},
                config |-> {"validation_check", "security_check"}]]

\* ANALYSIS_RULES.get(content_type, {}).get("mandatory", [])
Mandatory(content_type) ==
    IF content_type \in RuleCategories THEN ANALYSIS_RULES[content_type].mandatory ELSE {}

\* ANALYSIS_RULES.get(content_type, {}).get("default", [])
Default(content_type) ==
    IF content_type \in RuleCategories THEN ANALYSIS_RULES[content_type].default ELSE {}

\* the loop over RULE_PRESETS[preset]["enabled_rules"].items()
PresetRules(content_type, preset) ==
    UNION {RULE_PRESETS[preset][rule_type] :
              rule_type \in {t \in DOMAIN RULE_PRESETS[preset] : t = content_type}}

\* a preset is falsy when it is None or the empty string
Truthy(preset) == preset # None /\ preset # ""

get_active_rules_NoMandatory(content_type, preset) ==
    IF Truthy(preset) /\ preset \in PresetNames
    THEN PresetRules(content_type, preset)
    ELSE Default(content_type)

\* get_active_rules adding the default rules to those of a preset
get_active_rules_WithDefault(content_type, preset) ==
    IF Truthy(preset) /\ preset \in PresetNames
    THEN Mandatory(content_type) \cup PresetRules(content_type, preset)
         \cup Default(content_type)
    ELSE Mandatory(content_type) \cup Default(content_type)

get_active_rules(content_type, preset) ==
    IF Truthy(preset) /\ preset \in PresetNames
    THEN Mandatory(content_type) \cup PresetRules(content_type, preset)
    ELSE Mandatory(content_type) \cup Default(content_type)

(***************************************************************************)
(* Texts.  A text is the concatenation, joined by newlines, of at most     *)
(* MaxFrags fragments of a lexicon of concrete strings.  Each regular      *)
(* expression of the classifier is a predicate on the fragment sequence:   *)
(* the fragments in which it matches by itself, plus the matches that      *)
(* straddle fragment boundaries.                                           *)
(*                                                                         *)
(*   ciao     ciao                     come    come stai?                  *)
(*   grazie   grazie                   def     def f(x):\n    return x+1   *)
(*   class    class                    fence   ```                         *)
(*   fenced   ```py\nx\n```            analizza analizza                   *)
(*   import   import os                call    f(x) {                      *)
(*   arrow    x => x                   if      if (x)                      *)
(*   html     <b>x</b>                 json    {"a": 1, "b": [1,2,3]}      *)
(*   arr      [{}]                     csv     a,b,c                       *)
(*   yaml     k:\n  - v                pipe    | a | b |                   *)
(*   lorem    fifteen words of plain prose                                 *)
(***************************************************************************)
MaxFrags == 2

Lexicon == {"ciao", "come", "grazie", "def", "class", "fence", "fenced", "analizza",
            "import", "call", "arrow", "if", "html", "json", "arr", "csv", "yaml",
            "pipe", "lorem"}

Texts == UNION {[1..n -> Lexicon] : n \in 0..MaxFrags}

\* len(fragment.split())
Words(f) ==
    CASE f = "lorem" -> 15
      [] f = "pipe" -> 5
      [] f \in {"def", "json"} -> 4
      [] f \in {"arrow", "fenced", "yaml"} -> 3
      [] f \in {"come", "import", "call", "if"} -> 2
      [] OTHER -> 1

RECURSIVE SumWords(_)
SumWords(t) == IF t = <<>> THEN 0 ELSE Words(Head(t)) + SumWords(Tail(t))

\* len(content.split())
SplitLen(t) == SumWords(t)

Has(t, S) == \E i \in DOMAIN t : t[i] \in S

\* fragments whose first character is a word character
WordStart == {"ciao", "come", "grazie", "def", "class", "analizza", "import", "call",
              "arrow", "if", "csv", "yaml", "lorem"}

ShortLimit == 15

\* conversation_patterns, searched in content.lower() without re.MULTILINE
ConvGreeting(t) == Has(t, {"ciao"})
ConvQuestionMark(t) == t # <<>> /\ t[Len(t)] \in {"come"}
ConvPoliteness(t) == Has(t, {"grazie"})
ConvQuestionWord(t) == t # <<>> /\ t[1] \in {"come"}

ConversationPattern(t) ==
    ConvGreeting(t) \/ ConvQuestionMark(t) \/ ConvPoliteness(t) \/ ConvQuestionWord(t)

\* technical_indicators, searched in content.lower()
TechKeyword(t) == Has(t, {"def", "class"})
TechFence(t) == Has(t, {"fence", "fenced"})
TechVerb(t) == Has(t, {"analizza"})

TechnicalIndicator(t) == TechKeyword(t) \/ TechFence(t) \/ TechVerb(t)

_is_conversational(t) ==
    IF SplitLen(t) < ShortLimit /\ ConversationPattern(t) THEN TRUE
    ELSE IF TechnicalIndicator(t) THEN FALSE
    ELSE TRUE

\* code_patterns, searched with re.MULTILINE
CodeFencedBlock(t) ==
    \/ Has(t, {"fenced"})
    \/ \E i, j \in DOMAIN t : j >= i + 2 /\ t[i] = "fence" /\ t[j] = "fence"
CodeDeclaration(t) ==
    \/ Has(t, {"def"})
    \/ \E i \in DOMAIN t : i + 1 \in DOMAIN t /\ t[i] = "class" /\ t[i + 1] \in WordStart
CodeImport(t) == Has(t, {"import"})
CodeCallBrace(t) ==
    \/ Has(t, {"call"})
    \/ \E i \in DOMAIN t : i + 1 \in DOMAIN t /\ t[i] = "if" /\ t[i + 1] = "json"
CodeArrow(t) == Has(t, {"arrow"})
CodeControlFlow(t) == Has(t, {"if"})
CodeHtmlTags(t) == Has(t, {"html"})
CodeIndentation(t) == Has(t, {"def"})

contains_code(t) ==
    \/ CodeFencedBlock(t) \/ CodeDeclaration(t) \/ CodeImport(t) \/ CodeCallBrace(t)
    \/ CodeArrow(t) \/ CodeControlFlow(t) \/ CodeHtmlTags(t) \/ CodeIndentation(t)

\* data_patterns, searched with re.MULTILINE
DataJsonObject(t) == Has(t, {"json"})
DataJsonArray(t) ==
    \/ Has(t, {"arr"})
    \/ \E i, j, k \in DOMAIN t : /\ i < j /\ j < k
                                 /\ t[i] \in {"json", "arr"}
                                 /\ t[j] \in {"json", "arr"}
                                 /\ t[k] \in {"json", "arr"}
DataCsv(t) == Has(t, {"csv"})
DataYaml(t) == \E i \in DOMAIN t : i + 1 \in DOMAIN t /\ t[i] = "yaml"
DataPipeTable(t) == Has(t, {"pipe"})

_contains_structured_data(t) ==
    DataJsonObject(t) \/ DataJsonArray(t) \/ DataCsv(t) \/ DataYaml(t) \/ DataPipeTable(t)

(***************************************************************************)
(* Files and contexts.  A file is represented by the suffix of its name    *)
(* without the dot, in the letter case it is written in, and by whether    *)
(* it carries a 'content' key.                                             *)
(***************************************************************************)
MaxFiles == 2

Suffixes == {"py", "JSON", "yml", "txt"}

Files == [ext : Suffixes, has_content : {TRUE}] \cup {[ext |-> "py", has_content |-> FALSE]}

FileLists == UNION {[1..n -> Files] : n \in 0..MaxFiles}

\* str.lower() on the suffixes in use
Lower(ext) == IF ext = "JSON" THEN "json" ELSE ext

_map_file_type_to_content_type(file_type) ==
    CASE Lower(file_type) \in {"py", "js", "ts", "java", "cpp"} -> "code"
      [] Lower(file_type) \in {"json", "csv", "yaml", "yml", "xml"} -> "data"
      [] OTHER -> "general"

RECURSIVE _determine_type_from_files(_)
_determine_type_from_files(files) ==
    IF files = <<>> THEN "general"
    ELSE LET content_type == _map_file_type_to_content_type(Head(files).ext)
         IN IF content_type # "general" THEN content_type
            ELSE _determine_type_from_files(Tail(files))

\* A context is None or a dictionary.  It is modelled as a record: is_dict says
\* that it is a dictionary, keys which keys it has; the value of an absent key
\* is a filler that is never read.
ContextKeys == {"file_type", "available_files", "user_input", "content", "current_file"}

NoContext ==
    [is_dict |-> FALSE, keys |-> {}, file_type |-> "", available_files |-> <<>>,
     user_input |-> <<>>]

Dict(keys, file_type, available_files, user_input) ==
    [is_dict |-> TRUE, keys |-> keys, file_type |-> file_type,
     available_files |-> available_files, user_input |-> user_input]

\* `if context:` is false for None and for the empty dictionary
ContextTruthy(context) == context.is_dict /\ context.keys # {}
HasKey(context, k) == k \in context.keys

determine_content_type_DataFirst(content, context) ==
    IF _is_conversational(content) THEN "conversation"
    ELSE IF _contains_structured_data(content) THEN "data"
    ELSE IF contains_code(content) THEN "code"
    ELSE IF ContextTruthy(context) /\ HasKey(context, "file_type")
         THEN _map_file_type_to_content_type(context.file_type)
    ELSE IF ContextTruthy(context) /\ HasKey(context, "available_files")
         THEN _determine_type_from_files(context.available_files)
    ELSE "general"

determine_content_type(content, context) ==
    IF _is_conversational(content) THEN "conversation"
    ELSE IF contains_code(content) THEN "code"
    ELSE IF _contains_structured_data(content) THEN "data"
    ELSE IF ContextTruthy(context) /\ HasKey(context, "file_type")
         THEN _map_file_type_to_content_type(context.file_type)
    ELSE IF ContextTruthy(context) /\ HasKey(context, "available_files")
         THEN _determine_type_from_files(context.available_files)
    ELSE "general"

\* merge_rule_sets: categories outside ANALYSIS_RULES are skipped
merge_rule_sets_LastOnly(rule_sets) ==
    UNION {ANALYSIS_RULES[rule_sets[i]].mandatory \cup ANALYSIS_RULES[rule_sets[i]].default :
              i \in {j \in DOMAIN rule_sets : j = Len(rule_sets)
                                              /\ rule_sets[j] \in RuleCategories}}

\* merge_rule_sets with rules of its own for a category outside the table
merge_rule_sets_UnknownCounts(rule_sets) ==
    UNION {IF rule_sets[i] \in RuleCategories
           THEN ANALYSIS_RULES[rule_sets[i]].mandatory \cup ANALYSIS_RULES[rule_sets[i]].default
           ELSE {"validation_check", "security_check"} :
              i \in DOMAIN rule_sets}

merge_rule_sets(rule_sets) ==
    UNION {ANALYSIS_RULES[rule_sets[i]].mandatory \cup ANALYSIS_RULES[rule_sets[i]].default :
              i \in {j \in DOMAIN rule_sets : rule_sets[j] \in RuleCategories}}

Contains(seq, x) == \E i \in DOMAIN seq : seq[i] = x
AnyExt(files, S) == \E i \in DOMAIN files : Lower(files[i].ext) \in S

\* suggest_rules appending code whatever the list holds already
suggest_rules_Unchecked(context) ==
    LET fromInput ==
            IF HasKey(context, "user_input")
            THEN LET content_type == determine_content_type(context.user_input, context)
                 IN IF content_type \in {"conversation", "code", "data"}
                    THEN <<content_type>> ELSE <<>>
            ELSE <<>>
        files == IF HasKey(context, "available_files") THEN context.available_files ELSE <<>>
        withCode ==
            IF AnyExt(files, {"py", "js", "html", "css", "cpp", "java"})
            THEN Append(fromInput, "code") ELSE fromInput
        withData ==
            IF AnyExt(files, {"json", "csv", "yaml", "yml"}) /\ ~Contains(withCode, "data")
            THEN Append(withCode, "data") ELSE withCode
    IN IF AnyExt(files, {"yml", "yaml", "conf", "ini", "env"})
       THEN Append(withData, "config") ELSE withData

\* suggest_rules(context): the classifier-derived category, then the file-derived ones
suggest_rules(context) ==
    LET fromInput ==
            IF HasKey(context, "user_input")
            THEN LET content_type == determine_content_type(context.user_input, context)
                 IN IF content_type \in {"conversation", "code", "data"}
                    THEN <<content_type>> ELSE <<>>
            ELSE <<>>
        files == IF HasKey(context, "available_files") THEN context.available_files ELSE <<>>
        withCode ==
            IF AnyExt(files, {"py", "js", "html", "css", "cpp", "java"})
               /\ ~Contains(fromInput, "code")
            THEN Append(fromInput, "code") ELSE fromInput
        withData ==
            IF AnyExt(files, {"json", "csv", "yaml", "yml"}) /\ ~Contains(withCode, "data")
            THEN Append(withCode, "data") ELSE withCode
        withConfig ==
            IF AnyExt(files, {"yml", "yaml", "conf", "ini", "env"})
            THEN Append(withData, "config") ELSE withData
    IN withConfig

\* the files that _prepare_context keeps: those with a 'content' key
RECURSIVE FormattedFiles(_)
FormattedFiles(files) ==
    IF files = <<>> THEN <<>>
    ELSE IF Head(files).has_content
         THEN <<Head(files)>> \o FormattedFiles(Tail(files))
         ELSE FormattedFiles(Tail(files))

\* ChatInterface._prepare_context: the MessageContext of a prompt
_prepare_context(prompt, files) ==
    LET content_type == determine_content_type(prompt, NoContext)
        formatted_files == FormattedFiles(files)
        suggested_rules ==
            suggest_rules(Dict({"content", "available_files", "current_file"},
                               "", formatted_files, <<>>))
    IN [content_type |-> content_type,
        active_rules |-> merge_rule_sets(suggested_rules),
        available_files |-> formatted_files]

(***************************************************************************)
(* Specification Spec: the rule engine and _prepare_context                *)
(***************************************************************************)
ContentTypes == {"code", "conversation", "data", "json", "general", "config", "api",
                 "unknown"}

Presets == {None, ""} \cup PresetNames \cup {"bogus"}

\* the lists of categories passed to merge_rule_sets: the categories of the
\* table and config, which suggest_rules emits and the table does not have
MaxCategories == 3

Categories == RuleCategories \cup {"config"}

CategoryLists == UNION {[1..n -> Categories] : n \in 0..MaxCategories}

RuleCalls ==
    [op : {"get_active_rules"}, content_type : ContentTypes, preset : Presets,
     done : {FALSE}]
    \cup [op : {"_prepare_context"}, prompt : Texts, files : FileLists, done : {FALSE}]
    \cup [op : {"merge_rule_sets"}, rule_sets : CategoryLists, done : {FALSE}]

AnalyzerIdle ==
    /\ previous_analyses = <<>>
    /\ last = <<>>
    /\ recent = <<>>

\* no chat document and no LLMHandler: the state of the specifications that
\* use neither
ServicesIdle ==
    /\ chats = <<>>
    /\ handler = <<>>

Init ==
    /\ call \in RuleCalls
    /\ ret = None
    /\ AnalyzerIdle
    /\ ServicesIdle

GetActiveRules ==
    /\ call.op = "get_active_rules" /\ ~call.done
    /\ ret' = get_active_rules(call.content_type, call.preset)
    /\ call' = [call EXCEPT !.done = TRUE]
    /\ UNCHANGED <<previous_analyses, last, recent, chats, handler>>

PrepareContext ==
    /\ call.op = "_prepare_context" /\ ~call.done
    /\ ret' = _prepare_context(call.prompt, call.files)
    /\ call' = [call EXCEPT !.done = TRUE]
    /\ UNCHANGED <<previous_analyses, last, recent, chats, handler>>

MergeRuleSets ==
    /\ call.op = "merge_rule_sets" /\ ~call.done
    /\ ret' = merge_rule_sets(call.rule_sets)
    /\ call' = [call EXCEPT !.done = TRUE]
    /\ UNCHANGED <<previous_analyses, last, recent, chats, handler>>

Next == GetActiveRules \/ PrepareContext \/ MergeRuleSets

Spec == Init /\ [][Next]_vars

(***************************************************************************)
(* Specification SpecClassify: determine_content_type                      *)
(***************************************************************************)
ContextFiles == [ext : Suffixes, has_content : {TRUE}]

ContextFileLists == UNION {[1..n -> ContextFiles] : n \in 0..MaxFiles}

Contexts ==
    {NoContext, Dict({}, "", <<>>, <<>>)}
    \cup {Dict({"file_type"}, e, <<>>, <<>>) : e \in {"py", "JSON", "txt"}}
    \cup {Dict({"available_files"}, "", fl, <<>>) : fl \in ContextFileLists}
    \cup {Dict({"file_type", "available_files"}, "txt", <<[ext |-> "py", has_content |-> TRUE]>>,
               <<>>)}

ClassifyCalls ==
    [op : {"determine_content_type"}, content : Texts, context : Contexts, done : {FALSE}]

InitClassify ==
    /\ call \in ClassifyCalls
    /\ ret = None
    /\ AnalyzerIdle
    /\ ServicesIdle

DetermineContentType ==
    /\ call.op = "determine_content_type" /\ ~call.done
    /\ ret' = determine_content_type(call.content, call.context)
    /\ call' = [call EXCEPT !.done = TRUE]
    /\ UNCHANGED <<previous_analyses, last, recent, chats, handler>>

NextClassify == DetermineContentType

SpecClassify == InitClassify /\ [][NextClassify]_vars

(***************************************************************************)
(* Properties of the rule engine and of the classifier                     *)
(***************************************************************************)
GetActiveRulesDone == call.op = "get_active_rules" /\ call.done
PrepareContextDone == call.op = "_prepare_context" /\ call.done
ClassifyDone == call.op = "determine_content_type" /\ call.done

\* C1: for every content type and every preset value, get_active_rules returns a
\* set that contains every mandatory rule of the content type; for "code" it
\* contains no_omissions and maintain_style.
C1_ActiveRulesContainMandatory ==
    GetActiveRulesDone =>
        /\ Mandatory(call.content_type) \subseteq ret
        /\ call.content_type = "code" => {"no_omissions", "maintain_style"} \subseteq ret

\* C1 witness: a known preset that enables nothing for "code" still yields the
\* two mandatory rules.
C1_Witness ==
    /\ GetActiveRulesDone
    /\ call.content_type = "code" /\ call.preset = "conversational"
    /\ ret = {"no_omissions", "maintain_style"}

\* C2: the active rule set of every prepared message whose content type is
\* conversation, code or data contains the mandatory rules of that category.
C2_ContextRulesContainMandatory ==
    (PrepareContextDone /\ ret.content_type \in {"conversation", "code", "data"}) =>
        Mandatory(ret.content_type) \subseteq ret.active_rules

\* C3: a text that matches a structured-data signature and no code pattern is
\* classified data.
C3_StructuredDataIsData ==
    (ClassifyDone /\ _contains_structured_data(call.content) /\ ~contains_code(call.content)) =>
        ret = "data"

\* C4: a short text that matches a conversational pattern and a technical
\* indicator is not classified conversation.
C4_TechnicalOverridesConversation ==
    (/\ ClassifyDone
     /\ SplitLen(call.content) < ShortLimit
     /\ ConversationPattern(call.content)
     /\ TechnicalIndicator(call.content)) =>
        ret # "conversation"

\* C5: a text that the conversational test rejects and that matches a code
\* pattern is classified code, whatever data signature it matches and whatever
\* context is supplied.
C5_CodeBeforeDataAndContext ==
    (ClassifyDone /\ ~_is_conversational(call.content) /\ contains_code(call.content)) =>
        ret = "code"

\* C5 witness: a text with a def declaration that also matches a data signature,
\* classified with a context naming a data file type.
C5_Witness ==
    /\ ClassifyDone
    /\ ~_is_conversational(call.content)
    /\ CodeDeclaration(call.content) /\ _contains_structured_data(call.content)
    /\ HasKey(call.context, "file_type") /\ call.context.file_type = "JSON"
    /\ ret = "code"

MergeRuleSetsDone == call.op = "merge_rule_sets" /\ call.done

\* C16: merge_rule_sets of a list that ends with a category c contains
\* merge_rule_sets of the list without c, and the mandatory rules of c when c
\* is a category of the table.
C16_MergeIsMonotonic ==
    (MergeRuleSetsDone /\ call.rule_sets # <<>>) =>
        LET A == SubSeq(call.rule_sets, 1, Len(call.rule_sets) - 1)
            c == call.rule_sets[Len(call.rule_sets)]
        IN /\ merge_rule_sets(A) \subseteq ret
           /\ c \in RuleCategories => Mandatory(c) \subseteq ret

\* C16 witness: code and data merged contain the rules of code and more.
C16_Witness ==
    /\ MergeRuleSetsDone /\ call.rule_sets = <<"code", "data">>
    /\ merge_rule_sets(<<"code">>) \subseteq ret
    /\ Mandatory("data") \subseteq ret
    /\ ret # merge_rule_sets(<<"code">>)

(***************************************************************************)
(* Code analyzer.  The codes analysed are a catalogue of concrete sources, *)
(* each given by the outcome of ast.parse and, when it parses, by its      *)
(* syntax tree.  A node has a type, a name, the number of positional       *)
(* arguments (FunctionDef), whether it has a docstring, the number of      *)
(* exception handlers (Try), the dotted name it imports, as a sequence of  *)
(* parts (Import, ImportFrom), and its child statements in visit order.    *)
(*                                                                         *)
(*   bad     def f(: / print(eval(x))                                      *)
(*   plain   import os / import requests / password = "abc123" /           *)
(*           token = "t0" / class K: pass                                  *)
(*   six     def f(a, b, c, d, e, g): return a                             *)
(*   two     calculate_sum(numbers) and process_data(data, threshold=0),   *)
(*           both with a docstring (the sample code of the tests)          *)
(*   empty   the empty string                                              *)
(***************************************************************************)
Node(type, name, args, doc, handlers, module, body) ==
    [type |-> type, name |-> name, args |-> args, doc |-> doc, handlers |-> handlers,
     module |-> module, body |-> body]

Stmt == Node("Stmt", "", 0, FALSE, 0, <<>>, <<>>)
Import(parts) == Node("Import", "", 0, FALSE, 0, parts, <<>>)
FunctionDef(name, args, doc, body) == Node("FunctionDef", name, args, doc, 0, <<>>, body)
ClassDef(name, doc, body) == Node("ClassDef", name, 0, doc, 0, <<>>, body)
If(body) == Node("If", "", 0, FALSE, 0, <<>>, body)
For(body) == Node("For", "", 0, FALSE, 0, <<>>, body)
While(body) == Node("While", "", 0, FALSE, 0, <<>>, body)
Try(handlers, body) == Node("Try", "", 0, FALSE, handlers, <<>>, body)

CodeNames == {"bad", "plain", "six", "two", "empty"}

\* the sources above and three more versions of the function f: with one
\* argument, defined twice, and as a method with two
Versions == CodeNames \cup {"one", "twice", "inner"}

\* ast.parse(code): the module body, or a SyntaxError
Parses(code) == code # "bad"

Tree(code) ==
    CASE code = "plain" -> <<Import(<<"os">>), Import(<<"requests">>), Stmt, Stmt,
                             ClassDef("K", FALSE, <<Stmt>>)>>
      [] code = "six" -> <<FunctionDef("f", 6, FALSE, <<Stmt>>)>>
      [] code = "two" ->
            <<FunctionDef("calculate_sum", 1, TRUE, <<Stmt, Stmt, For(<<Stmt>>), Stmt>>),
              FunctionDef("process_data", 2, TRUE,
                          <<Stmt, Stmt, For(<<If(<<Stmt>>)>>), Stmt>>)>>
      [] code = "one" -> <<FunctionDef("f", 1, FALSE, <<Stmt>>)>>
      [] code = "twice" -> <<FunctionDef("f", 1, FALSE, <<Stmt>>),
                             FunctionDef("f", 6, FALSE, <<Stmt>>)>>
      [] code = "inner" -> <<ClassDef("K", FALSE, <<FunctionDef("f", 2, FALSE, <<Stmt>>)>>)>>
      [] OTHER -> <<>>

Max(a, b) == IF a >= b THEN a ELSE b

\* F(x) with the argument evaluated first, once (call by value, as in Python)
Strict(F(_), x) == CHOOSE y \in {F(v) : v \in {x}} : TRUE

\* ComplexityVisitor (local class of _analyze_complexity)
ComplexityVisitorInit ==
    [current_depth |-> 0, max_depth |-> 0, branches |-> 0, cognitive_load |-> 0]

RECURSIVE ComplexityVisit(_, _), ComplexityVisitAll(_, _)
\* a visit that goes one level deeper and does not come back
ComplexityNestedNoLeave(node, v, branches, load) ==
    LET Enter(entered) ==
            ComplexityVisitAll(node.body,
                [entered EXCEPT !.max_depth = Max(@, entered.current_depth)])
    IN Strict(Enter, [v EXCEPT !.branches = @ + branches,
                               !.cognitive_load = @ + load,
                               !.current_depth = @ + 1])

\* visit_If, visit_For, visit_While, visit_Try: count, go one level deeper, come back
ComplexityNested(node, v, branches, load) ==
    LET Leave(visited) == [visited EXCEPT !.current_depth = @ - 1]
        Enter(entered) ==
            Strict(Leave, ComplexityVisitAll(node.body,
                              [entered EXCEPT !.max_depth = Max(@, entered.current_depth)]))
    IN Strict(Enter, [v EXCEPT !.branches = @ + branches,
                               !.cognitive_load = @ + load,
                               !.current_depth = @ + 1])

ComplexityVisit(node, v) ==
    CASE node.type \in {"FunctionDef", "ClassDef"} ->
            ComplexityVisitAll(node.body, [v EXCEPT !.cognitive_load = @ + 1])
      [] node.type = "If" -> ComplexityNested(node, v, 1, 1)
      [] node.type \in {"For", "While"} -> ComplexityNested(node, v, 1, 2)
      [] node.type = "Try" -> ComplexityNested(node, v, node.handlers + 1, 1)
      [] OTHER -> ComplexityVisitAll(node.body, v)

\* generic_visit over a list of statements
ComplexityVisitAll(nodes, v) ==
    IF nodes = <<>> THEN v
    ELSE LET Rest(visited) == ComplexityVisitAll(Tail(nodes), visited)
         IN Strict(Rest, ComplexityVisit(Head(nodes), v))

\* _analyze_complexity on what ast.parse makes of the code: a tree, or an error
ComplexityOfSource(source) ==
    IF ~source.parses
    THEN [cognitive_load |-> 0, nesting_depth |-> 0, branches |-> 0]
    ELSE LET Complexity(visitor) ==
                 [cognitive_load |-> visitor.cognitive_load,
                  nesting_depth |-> visitor.max_depth,
                  branches |-> visitor.branches,
                  max_method_complexity |-> 0,
                  total_complexity |-> visitor.cognitive_load + visitor.max_depth * 2
                                       + visitor.branches]
         IN Strict(Complexity, ComplexityVisitAll(source.tree, ComplexityVisitorInit))

_analyze_complexity(code) ==
    ComplexityOfSource([parses |-> Parses(code), tree |-> Tree(code)])

\* The names that the body of ASTAnalyzer._analyze_function_complexity can
\* resolve: its locals, the locals of the enclosing _analyze_ast, and the module
\* globals.  ComplexityVisitor is a local class of _analyze_complexity and is
\* none of them.
NamesInScope ==
    {"self", "node", "visitor", "tree", "active_rules", "analysis", "ASTAnalyzer",
     "analyzer", "st", "ast", "re", "difflib", "AnalysisResult", "CodeAnalyzer",
     "CodeChange"}

\* ASTAnalyzer._analyze_function_complexity: a value, or the exception raised
_analyze_function_complexity(node) ==
    IF "ComplexityVisitor" \in NamesInScope
    THEN LET Complexity(visitor) ==
                 [raised |-> "",
                  value |-> [cognitive_load |-> visitor.cognitive_load,
                             nesting_depth |-> visitor.max_depth,
                             branches |-> visitor.branches]]
         IN Strict(Complexity, ComplexityVisit(node, ComplexityVisitorInit))
    ELSE [raised |-> "NameError",
          value |-> [cognitive_load |-> 0, nesting_depth |-> 0, branches |-> 0]]

\* the analysis dictionary of _analyze_ast, with the exception in flight (if any)
AnalysisInit ==
    [functions |-> <<>>, classes |-> <<>>, imports |-> <<>>, dependencies |-> <<>>,
     issues |-> <<>>, suggestions |-> <<>>, raised |-> ""]

ArgLimit == 5

RECURSIVE AstVisit(_, _, _), AstVisitAll(_, _, _)
\* ASTAnalyzer.visit_FunctionDef
VisitFunctionDef(node, a, active_rules) ==
    LET Visit(complexity) ==
            LET func_analysis == [name |-> node.name, args |-> node.args,
                                  docstring |-> node.doc, complexity |-> complexity.value]
                a1 == IF ~node.doc /\ "maintain_style" \in active_rules
                      THEN [a EXCEPT !.issues = Append(@, <<"missing docstring", node.name>>)]
                      ELSE a
                a2 == IF node.args > ArgLimit /\ "practical_improvements" \in active_rules
                      THEN [a1 EXCEPT
                               !.suggestions = Append(@, <<"reduce arguments", node.name>>)]
                      ELSE a1
                Record(a3) == IF a3.raised # "" THEN a3
                              ELSE [a3 EXCEPT !.functions = Append(@, func_analysis)]
            IN IF complexity.raised # "" THEN [a EXCEPT !.raised = complexity.raised]
               ELSE Strict(Record, AstVisitAll(node.body, a2, active_rules))
    IN Strict(Visit, _analyze_function_complexity(node))

\* ASTAnalyzer.visit_ClassDef
VisitClassDef(node, a, active_rules) ==
    LET class_analysis == [name |-> node.name, docstring |-> node.doc]
        a1 == IF ~node.doc /\ "maintain_style" \in active_rules
              THEN [a EXCEPT !.issues = Append(@, <<"missing docstring", node.name>>)]
              ELSE a
        Record(a2) == IF a2.raised # "" THEN a2
                      ELSE [a2 EXCEPT !.classes = Append(@, class_analysis)]
    IN Strict(Record, AstVisitAll(node.body, a1, active_rules))

AstVisit(node, a, active_rules) ==
    IF a.raised # "" THEN a
    ELSE CASE node.type = "FunctionDef" -> VisitFunctionDef(node, a, active_rules)
           [] node.type = "ClassDef" -> VisitClassDef(node, a, active_rules)
           [] node.type = "Import" -> [a EXCEPT !.imports = Append(@, node.module)]
           [] OTHER -> AstVisitAll(node.body, a, active_rules)

AstVisitAll(nodes, a, active_rules) ==
    IF nodes = <<>> THEN a
    ELSE LET Rest(visited) == AstVisitAll(Tail(nodes), visited, active_rules)
         IN Strict(Rest, AstVisit(Head(nodes), a, active_rules))

standard_lib == {"os", "sys", "re", "math", "datetime", "collections", "json", "random",
                 "time", "pathlib", "typing", "abc", "logging"}

RECURSIVE _analyze_dependencies(_)
_analyze_dependencies(imports) ==
    IF imports = <<>> THEN <<>>
    ELSE IF Head(Head(imports)) \notin standard_lib
         THEN <<Head(imports)>> \o _analyze_dependencies(Tail(imports))
         ELSE _analyze_dependencies(Tail(imports))

\* _analyze_ast(tree, active_rules): the analysis, or the exception it raised
_analyze_ast(tree, active_rules) ==
    LET Finish(a) == IF a.raised # "" THEN a
                     ELSE [a EXCEPT !.dependencies = _analyze_dependencies(a.imports)]
    IN Strict(Finish, AstVisitAll(tree, AnalysisInit, active_rules))

\* code.split('\n'): the pieces of a source between its newlines
Split(code) ==
    CASE code = "bad" -> <<"def f(:", "    print(eval(x))">>
      [] code = "plain" -> <<"import os", "import requests", "password = \"abc123\"",
                             "token = \"t0\"", "class K:", "    pass">>
      [] code = "six" -> <<"def f(a, b, c, d, e, g):", "    return a">>
      [] code = "two" ->
            <<"", "def calculate_sum(numbers):", "    \"\"\"Calculate sum of numbers.\"\"\"",
              "    total = 0", "    for num in numbers:", "        total += num",
              "    return total", "", "def process_data(data, threshold=0):",
              "    \"\"\"Process data with threshold.\"\"\"", "    results = []",
              "    for item in data:", "        if item > threshold:",
              "            results.append(item * 2)", "    return results", "    ">>
      [] code = "empty" -> <<"">>
      [] code = "one" -> <<"def f(a):", "    return a">>
      [] code = "twice" -> <<"def f(a):", "    return a",
                             "def f(a, b, c, d, e, g):", "    return a">>
      [] code = "inner" -> <<"class K:", "    def f(self, x):", "        pass">>

\* code.splitlines(): as Split, without the empty piece after a final newline
splitlines(code) ==
    LET pieces == Split(code)
    IN IF pieces[Len(pieces)] = "" THEN SubSeq(pieces, 1, Len(pieces) - 1) ELSE pieces

\* len(code.split('\n')), the total_lines of _get_code_stats
TotalLines(code) == Len(Split(code))

_get_code_stats(code) == [total_lines |-> TotalLines(code)]

\* _analyze_style: the findings for each source of the catalogue, in order
_analyze_style(code) ==
    CASE code = "two" -> <<<<"inconsistent indentation">>, <<"operator spacing", "6">>,
                           <<"operator spacing", "9">>, <<"operator spacing", "13">>,
                           <<"operator spacing", "14">>>>
      [] OTHER -> <<>>

\* the regular expressions of the pattern and security tables that match a source
Matches(code) ==
    CASE code = "bad" -> {"print", "eval"}
      [] code = "plain" -> {"password", "token"}
      [] OTHER -> {}

\* the messages of the entries of a table, in table order, whose regex matches
RECURSIVE Matching(_, _)
Matching(table, code) ==
    IF table = <<>> THEN <<>>
    ELSE IF Head(table) \in Matches(code)
         THEN <<<<Head(table)>>>> \o Matching(Tail(table), code)
         ELSE Matching(Tail(table), code)

PatternIssues == <<"except_pass", "except_exception_pass">>
PatternSuggestions == <<"while_true", "global", "print", "comprehension", "sort_lambda">>
PerformancePatterns == <<"str_concat", "range_len", "list_multiplication", "dict_of_list">>

_analyze_patterns(code) ==
    [issues |-> Matching(PatternIssues, code),
     suggestions |-> Matching(PatternSuggestions, code) \o Matching(PerformancePatterns, code)]

\* a file_info is None or a dictionary: is_dict, the keys present, the name
NoFileInfo == [is_dict |-> FALSE, keys |-> {}, name |-> ""]
FileInfo(keys, name) == [is_dict |-> TRUE, keys |-> keys, name |-> name]

FileNames == {"a.py", "b.js"}

\* `file_info and 'name' in file_info`
HasName(file_info) == file_info.is_dict /\ file_info.keys # {} /\ "name" \in file_info.keys

\* Path(name).suffix.lower() mapped to the file type of _analyze_security
FileType(file_info) ==
    IF ~HasName(file_info) THEN "unknown"
    ELSE CASE file_info.name = "a.py" -> "python"
           [] file_info.name = "b.js" -> "javascript"
           [] OTHER -> "unknown"

SecurityPatterns(file_type) ==
    CASE file_type = "python" -> <<"eval", "exec", "subprocess", "input", "os_system",
                                   "pickle", "yaml_load", "raw_input">>
      [] file_type = "javascript" -> <<"eval", "innerHTML", "document_write",
                                       "localStorage", "new_Function">>
      [] file_type = "html" -> <<"inline_handler", "javascript_uri", "script_not_https">>
      [] OTHER -> <<>>

GenericPatterns == <<"password", "api_key", "secret", "token">>

_analyze_security_TypedOnly(code, file_info) ==
    IF FileType(file_info) = "unknown" THEN Matching(GenericPatterns, code)
    ELSE Matching(SecurityPatterns(FileType(file_info)), code)

_analyze_security(code, file_info) ==
    Matching(SecurityPatterns(FileType(file_info)), code) \o Matching(GenericPatterns, code)

(***************************************************************************)
(* difflib.Differ().compare(a, b).  A line of the diff is a pair of its    *)
(* two-character tag and the text after it.  Two lines are matched when    *)
(* they are equal; inside a stretch without equal lines the closest pair   *)
(* of similar lines, if any, is shown as a changed line with its hints.    *)
(***************************************************************************)
Line(tag, text) == <<tag, text>>
Tag(line) == line[1]
Text(line) == line[2]

RECURSIVE Dump(_, _, _, _)
Dump(tag, x, lo, hi) ==
    IF lo > hi THEN <<>> ELSE <<Line(tag, x[lo])>> \o Dump(tag, x, lo + 1, hi)

\* SequenceMatcher.ratio() of two different lines in percent when it is above the
\* cutoff of Differ, 0 otherwise, and the lines that get a "? " hint
Ratio(x, y) ==
    CASE x = "    return a" /\ y = "    return total" -> 85
      [] x = "    return total" /\ y = "    return a" -> 85
      [] x = "def f(:" /\ y = "def f(a):" -> 87
      [] x = "def f(a):" /\ y = "def f(:" -> 87
      [] x = "    pass" /\ y = "        pass" -> 80
      [] x = "        pass" /\ y = "    pass" -> 80
      [] OTHER -> 0

HintOld(x, y) ==
    \/ x = "    return total" /\ y = "    return a"
    \/ x = "def f(a):" /\ y = "def f(:"
    \/ x = "        pass" /\ y = "    pass"
HintNew(x, y) ==
    \/ x = "    return a" /\ y = "    return total"
    \/ x = "def f(:" /\ y = "def f(a):"
    \/ x = "    pass" /\ y = "        pass"

\* Differ._qformat
QFormat(x, y) ==
    <<Line("- ", x)>> \o (IF HintOld(x, y) THEN <<Line("? ", "")>> ELSE <<>>)
    \o <<Line("+ ", y)>> \o (IF HintNew(x, y) THEN <<Line("? ", "")>> ELSE <<>>)

\* Differ._plain_replace
PlainReplace(a, alo, ahi, b, blo, bhi) ==
    IF bhi - blo < ahi - alo
    THEN Dump("+ ", b, blo, bhi) \o Dump("- ", a, alo, ahi)
    ELSE Dump("- ", a, alo, ahi) \o Dump("+ ", b, blo, bhi)

RECURSIVE FancyReplace(_, _, _, _, _, _)
\* Differ._fancy_helper
FancyHelper(a, alo, ahi, b, blo, bhi) ==
    IF alo <= ahi
    THEN IF blo <= bhi THEN FancyReplace(a, alo, ahi, b, blo, bhi)
         ELSE Dump("- ", a, alo, ahi)
    ELSE Dump("+ ", b, blo, bhi)

\* Differ._fancy_replace: the best pair is the first of greatest ratio, scanning b
\* in the outer loop and a in the inner one
FancyReplace(a, alo, ahi, b, blo, bhi) ==
    LET close == {p \in (alo..ahi) \X (blo..bhi) : Ratio(a[p[1]], b[p[2]]) > 0}
        r(p) == Ratio(a[p[1]], b[p[2]])
        First(p, q) == p[2] < q[2] \/ (p[2] = q[2] /\ p[1] <= q[1])
    IN IF close = {} THEN PlainReplace(a, alo, ahi, b, blo, bhi)
       ELSE LET best == CHOOSE p \in close :
                            \A q \in close : r(p) > r(q) \/ (r(p) = r(q) /\ First(p, q))
            IN FancyHelper(a, alo, best[1] - 1, b, blo, best[2] - 1)
               \o QFormat(a[best[1]], b[best[2]])
               \o FancyHelper(a, best[1] + 1, ahi, b, best[2] + 1, bhi)

\* the length of the run of equal lines that starts at a[i], b[j]
RECURSIVE Run(_, _, _, _, _, _)
Run(a, i, ahi, b, j, bhi) ==
    IF i > ahi \/ j > bhi \/ a[i] # b[j] THEN 0
    ELSE 1 + Run(a, i + 1, ahi, b, j + 1, bhi)

\* SequenceMatcher.get_matching_blocks followed by the opcode loop of compare:
\* the longest run of equal lines (the earliest in a, then in b), with the
\* stretches on its left and on its right compared in the same way
RECURSIVE DifferCompare(_, _, _, _, _, _)
DifferCompare(a, alo, ahi, b, blo, bhi) ==
    LET starts == {p \in (alo..ahi) \X (blo..bhi) :
                      /\ a[p[1]] = b[p[2]]
                      /\ (p[1] = alo \/ p[2] = blo \/ a[p[1] - 1] # b[p[2] - 1])}
        k(p) == Run(a, p[1], ahi, b, p[2], bhi)
        Earlier(p, q) == p[1] < q[1] \/ (p[1] = q[1] /\ p[2] <= q[2])
    IN IF starts = {}
       THEN IF alo > ahi /\ blo > bhi THEN <<>>
            ELSE FancyHelper(a, alo, ahi, b, blo, bhi)
       ELSE LET m == CHOOSE p \in starts :
                         \A q \in starts : k(p) > k(q) \/ (k(p) = k(q) /\ Earlier(p, q))
            IN DifferCompare(a, alo, m[1] - 1, b, blo, m[2] - 1)
               \o Dump("  ", a, m[1], m[1] + k(m) - 1)
               \o DifferCompare(a, m[1] + k(m), ahi, b, m[2] + k(m), bhi)

Differ(a, b) == DifferCompare(a, 1, Len(a), b, 1, Len(b))

\* the number of lines of a diff with a given tag
RECURSIVE CountTag(_, _)
CountTag(diff, tag) ==
    IF diff = <<>> THEN 0
    ELSE (IF Tag(Head(diff)) = tag THEN 1 ELSE 0) + CountTag(Tail(diff), tag)

(***************************************************************************)
(* The diff summary.  A summary line is a tuple of its words: the verb,    *)
(* the description of the pattern and, for a pattern with a group, the     *)
(* name captured.                                                          *)
(***************************************************************************)
\* the table `patterns` of _summarize_change_block, in insertion order
ChangePatterns ==
    <<[regex |-> "def", description |-> "funzione", groups |-> TRUE],
      [regex |-> "class", description |-> "classe", groups |-> TRUE],
      [regex |-> "import", description |-> "import", groups |-> TRUE],
      [regex |-> "return", description |-> "return statement", groups |-> FALSE],
      [regex |-> "if", description |-> "condizione", groups |-> FALSE],
      [regex |-> "for", description |-> "loop", groups |-> FALSE],
      [regex |-> "while", description |-> "loop", groups |-> FALSE],
      [regex |-> "try", description |-> "gestione errori", groups |-> FALSE]>>

\* re.search(pattern, text): no match, or a match with the text of group 1
\* (empty for a pattern without a group)
Search(regex, text) ==
    CASE regex = "def" /\ text \in {"def f(:", "def f(a, b, c, d, e, g):", "def f(a):",
                                    "    def f(self, x):"} -> <<"f">>
      [] regex = "def" /\ text = "def calculate_sum(numbers):" -> <<"calculate_sum">>
      [] regex = "def" /\ text = "def process_data(data, threshold=0):" -> <<"process_data">>
      [] regex = "class" /\ text = "class K:" -> <<"K">>
      [] regex = "import" /\ text = "import os" -> <<"os">>
      [] regex = "import" /\ text = "import requests" -> <<"requests">>
      [] regex = "return" /\ text \in {"    return a", "    return total",
                                       "    return results", "if x: return 1"} -> <<"">>
      [] regex = "if" /\ text \in {"        if item > threshold:", "if x: return 1"} -> <<"">>
      [] regex = "for" /\ text \in {"    for num in numbers:", "    for item in data:"} -> <<"">>
      [] regex = "while" /\ text = "while True:" -> <<"">>
      [] regex = "try" /\ text = "try:" -> <<"">>
      [] OTHER -> <<>>

\* [l[2:] for l in block if l.startswith(tag)]
RECURSIVE Tagged(_, _)
Tagged(block, tag) ==
    IF block = <<>> THEN <<>>
    ELSE (IF Tag(Head(block)) = tag THEN <<Text(Head(block))>> ELSE <<>>)
         \o Tagged(Tail(block), tag)

\* the first match of a pattern in a list of texts
RECURSIVE FirstMatch(_, _)
FirstMatch(regex, texts) ==
    IF texts = <<>> THEN <<>>
    ELSE IF Search(regex, Head(texts)) # <<>> THEN Search(regex, Head(texts))
         ELSE FirstMatch(regex, Tail(texts))

Summary(verb, pattern, match) ==
    IF pattern.groups THEN <<verb, pattern.description, match[1]>>
    ELSE <<verb, pattern.description>>

RECURSIVE SummarizeRemovedFirst(_, _, _, _)
SummarizeRemovedFirst(patterns, additions, deletions, n) ==
    IF patterns = <<>>
    THEN IF n = 1 THEN <<"Modificata una linea">> ELSE <<"Modificate", ToString(n), "linee">>
    ELSE LET pattern == Head(patterns)
         IN IF FirstMatch(pattern.regex, deletions) # <<>>
            THEN Summary("Rimosso", pattern, FirstMatch(pattern.regex, deletions))
            ELSE IF FirstMatch(pattern.regex, additions) # <<>>
                 THEN Summary("Aggiunto", pattern, FirstMatch(pattern.regex, additions))
                 ELSE SummarizeRemovedFirst(Tail(patterns), additions, deletions, n)

\* the loop over the patterns of _summarize_change_block
RECURSIVE SummarizeWith(_, _, _, _)
SummarizeWith(patterns, additions, deletions, n) ==
    IF patterns = <<>>
    THEN IF n = 1 THEN <<"Modificata una linea">> ELSE <<"Modificate", ToString(n), "linee">>
    ELSE LET pattern == Head(patterns)
         IN IF FirstMatch(pattern.regex, additions) # <<>>
            THEN Summary("Aggiunto", pattern, FirstMatch(pattern.regex, additions))
            ELSE IF FirstMatch(pattern.regex, deletions) # <<>>
                 THEN Summary("Rimosso", pattern, FirstMatch(pattern.regex, deletions))
                 ELSE SummarizeWith(Tail(patterns), additions, deletions, n)

\* CodeAnalyzer._summarize_change_block: None (the empty tuple) for an empty block
_summarize_change_block(block) ==
    IF block = <<>> THEN <<>>
    ELSE SummarizeWith(ChangePatterns, Tagged(block, "+ "), Tagged(block, "- "), Len(block))

\* `if current_block:` ... `current_block = []`
Flush(s) ==
    IF s.current_block = <<>> THEN s
    ELSE [summary |-> IF _summarize_change_block(s.current_block) # <<>>
                      THEN Append(s.summary, _summarize_change_block(s.current_block))
                      ELSE s.summary,
          current_block |-> <<>>]

RECURSIVE DiffLoopFlushOnHint(_, _)
DiffLoopFlushOnHint(diff, s) ==
    IF diff = <<>> THEN s
    ELSE LET line == Head(diff)
             Rest(next) == DiffLoopFlushOnHint(Tail(diff), next)
         IN Strict(Rest,
                   IF Tag(line) \in {"+ ", "- "}
                   THEN [s EXCEPT !.current_block = Append(@, line)]
                   ELSE Flush(s))

\* the loop of _generate_diff_summary
RECURSIVE DiffLoop(_, _)
DiffLoop(diff, s) ==
    IF diff = <<>> THEN s
    ELSE LET line == Head(diff)
             Rest(next) == DiffLoop(Tail(diff), next)
         IN Strict(Rest,
                   IF Tag(line) = "? " THEN s
                   ELSE IF Tag(line) \in {"+ ", "- "}
                        THEN [s EXCEPT !.current_block = Append(@, line)]
                        ELSE Flush(s))

\* CodeAnalyzer._generate_diff_summary
_generate_diff_summary(diff) ==
    LET Last(s) == Flush(s).summary
    IN Strict(Last, DiffLoop(diff, [summary |-> <<>>, current_block |-> <<>>]))

(***************************************************************************)
(* The diff summary of the conversation layer: ChatInterface has its own   *)
(* _generate_diff_summary and _summarize_change_block.                     *)
(***************************************************************************)
\* the table `patterns` of ChatInterface._summarize_change_block, in
\* insertion order
ChatInterfacePatterns ==
    <<[regex |-> "def", description |-> "funzione", groups |-> TRUE],
      [regex |-> "class", description |-> "classe", groups |-> TRUE],
      [regex |-> "import", description |-> "import", groups |-> TRUE],
      [regex |-> "return", description |-> "return statement", groups |-> FALSE],
      [regex |-> "if", description |-> "condizione", groups |-> FALSE],
      [regex |-> "for", description |-> "loop", groups |-> FALSE],
      [regex |-> "while", description |-> "loop", groups |-> FALSE],
      [regex |-> "try", description |-> "gestione errori", groups |-> FALSE]>>

\* the loop over the patterns of ChatInterface._summarize_change_block
RECURSIVE ChatInterfaceSummarizeWith(_, _, _, _)
ChatInterfaceSummarizeWith(patterns, additions, deletions, n) ==
    IF patterns = <<>>
    THEN IF n = 1 THEN <<"Modificata una linea">> ELSE <<"Modificate", ToString(n), "linee">>
    ELSE LET pattern == Head(patterns)
             added == FirstMatch(pattern.regex, additions)
             removed == FirstMatch(pattern.regex, deletions)
         IN IF added # <<>> THEN Summary("Aggiunto", pattern, added)
            ELSE IF removed # <<>> THEN Summary("Rimosso", pattern, removed)
                 ELSE ChatInterfaceSummarizeWith(Tail(patterns), additions, deletions, n)

\* ChatInterface._summarize_change_block: None (the empty tuple) for an empty
\* block
ChatInterface_summarize_change_block(block) ==
    IF block = <<>> THEN <<>>
    ELSE ChatInterfaceSummarizeWith(ChatInterfacePatterns, Tagged(block, "+ "),
                                    Tagged(block, "- "), Len(block))

\* `if current_block:` ... `current_block = []` of ChatInterface
ChatInterfaceFlush(s) ==
    IF s.current_block = <<>> THEN s
    ELSE LET block_summary == ChatInterface_summarize_change_block(s.current_block)
         IN [summary |-> IF block_summary # <<>> THEN Append(s.summary, block_summary)
                         ELSE s.summary,
             current_block |-> <<>>]

\* the loop of ChatInterface._generate_diff_summary
RECURSIVE ChatInterfaceDiffLoop(_, _)
ChatInterfaceDiffLoop(diff, s) ==
    IF diff = <<>> THEN s
    ELSE LET line == Head(diff)
             Rest(next) == ChatInterfaceDiffLoop(Tail(diff), next)
         IN Strict(Rest,
                   IF Tag(line) = "? " THEN s
                   ELSE IF Tag(line) \in {"+ ", "- "}
                        THEN [s EXCEPT !.current_block = Append(@, line)]
                        ELSE ChatInterfaceFlush(s))

\* ChatInterface._generate_diff_summary
ChatInterface_generate_diff_summary(diff) ==
    LET Last(s) == ChatInterfaceFlush(s).summary
    IN Strict(Last, ChatInterfaceDiffLoop(diff, [summary |-> <<>>, current_block |-> <<>>]))

\* ast.walk: the nodes of a tree, breadth first
RECURSIVE Walk(_)
Walk(queue) ==
    IF queue = <<>> THEN <<>>
    ELSE <<Head(queue)>> \o Strict(Walk, Tail(queue) \o Head(queue).body)

\* {node.name: node for node in ast.walk(tree) if isinstance(node, ast.FunctionDef)}:
\* the keys in insertion order, and for each key the last node of that name
RECURSIVE FuncNames(_, _)
FuncNames(nodes, seen) ==
    IF nodes = <<>> THEN seen
    ELSE LET Rest(names) == FuncNames(Tail(nodes), names)
         IN Strict(Rest,
                   IF Head(nodes).type = "FunctionDef" /\ ~Contains(seen, Head(nodes).name)
                   THEN Append(seen, Head(nodes).name) ELSE seen)

FuncArgs(nodes, name) ==
    LET idx == {i \in DOMAIN nodes : nodes[i].type = "FunctionDef" /\ nodes[i].name = name}
    IN nodes[CHOOSE i \in idx : \A j \in idx : j <= i].args

RECURSIVE RemovedOnly(_, _, _)
\* the loop over previous_funcs without the comparison of the signatures
RemovedOnly(names, prev_nodes, curr_nodes) ==
    IF names = <<>> THEN <<>>
    ELSE (IF ~Contains(FuncNames(curr_nodes, <<>>), Head(names))
          THEN <<<<"removed", Head(names)>>>> ELSE <<>>)
         \o RemovedOnly(Tail(names), prev_nodes, curr_nodes)

RECURSIVE RemovedOrChanged(_, _, _), NewFunctions(_, _)
\* the loop over previous_funcs
RemovedOrChanged(names, prev_nodes, curr_nodes) ==
    IF names = <<>> THEN <<>>
    ELSE LET name == Head(names)
             rest == RemovedOrChanged(Tail(names), prev_nodes, curr_nodes)
         IN IF ~Contains(FuncNames(curr_nodes, <<>>), name)
            THEN <<<<"removed", name>>>> \o rest
            ELSE IF FuncArgs(prev_nodes, name) # FuncArgs(curr_nodes, name)
                 THEN <<<<"signature changed", name>>>> \o rest
                 ELSE rest

\* the loop over current_funcs
NewFunctions(names, prev_names) ==
    IF names = <<>> THEN <<>>
    ELSE IF ~Contains(prev_names, Head(names))
         THEN <<<<"new function", Head(names)>>>> \o NewFunctions(Tail(names), prev_names)
         ELSE NewFunctions(Tail(names), prev_names)

Abs(x) == IF x < 0 THEN -x ELSE x

SignificantDelta == 5

LineChangesElse(diff) ==
    [lines_added |-> Len(diff) - CountTag(diff, "- ") - CountTag(diff, "? "),
     lines_removed |-> CountTag(diff, "- "),
     lines_modified |-> CountTag(diff, "? "),
     diff_summary |-> _generate_diff_summary(diff)]

\* the line counts of _analyze_changes and its diff summary
LineChanges(diff) ==
    [lines_added |-> CountTag(diff, "+ "),
     lines_removed |-> CountTag(diff, "- "),
     lines_modified |-> CountTag(diff, "? "),
     diff_summary |-> _generate_diff_summary(diff)]

\* the comparison of the functions of two versions (lines 627-664)
FunctionChanges(current_code, previous_code) ==
    LET Compare(curr_nodes) ==
            LET ComparePrevious(prev_nodes) ==
                    [significant_changes |->
                         NewFunctions(FuncNames(curr_nodes, <<>>), FuncNames(prev_nodes, <<>>)),
                     breaking_changes |->
                         RemovedOrChanged(FuncNames(prev_nodes, <<>>), prev_nodes, curr_nodes)]
            IN Strict(ComparePrevious, Walk(Tree(previous_code)))
    IN IF Parses(current_code) /\ Parses(previous_code)
       THEN Strict(Compare, Walk(Tree(current_code)))
       ELSE [significant_changes |-> <<<<"function analysis error">>>>,
             breaking_changes |-> <<>>]

\* what _analyze_changes derives from the two texts alone, computed once for
\* each pair of sources of the catalogue
TextChanges ==
    [current_code \in Versions, previous_code \in Versions |->
        [lines |-> LineChanges(Differ(splitlines(previous_code), splitlines(current_code))),
         functions |-> FunctionChanges(current_code, previous_code)]]

\* _analyze_complexity, computed once for each source of the catalogue
Complexity == [code \in Versions |-> _analyze_complexity(code)]

\* _analyze_changes(current_code, previous, file_info)
_analyze_changes(current_code, previous) ==
    LET Changes(text, complexity_delta) ==
            [lines_added |-> text.lines.lines_added,
             lines_removed |-> text.lines.lines_removed,
             lines_modified |-> text.lines.lines_modified,
             complexity_delta |-> complexity_delta,
             significant_changes |->
                 (IF Abs(complexity_delta) > SignificantDelta
                  THEN <<<<"complexity change">>>> ELSE <<>>)
                 \o text.functions.significant_changes,
             breaking_changes |-> text.functions.breaking_changes,
             diff_summary |-> text.lines.diff_summary]
        Delta(complexity_delta) ==
            Changes(TextChanges[current_code, previous.code], complexity_delta)
    IN Strict(Delta, Complexity[current_code].cognitive_load
                     - previous.analysis.complexity.cognitive_load)

\* the snapshot cache: a dictionary name -> {'code', 'analysis'}; an absent key
\* is the empty sequence, a present one a sequence of one snapshot
CacheGet(cache, name) == cache[name]

\* the incremental analysis of analyze_code (lines 71-76)
VersionChangesStoreFirst(cache, code, file_info, result) ==
    IF HasName(file_info)
    THEN <<_analyze_changes(code, [code |-> code, analysis |-> result])>>
    ELSE <<>>

VersionChanges(cache, code, file_info, result) ==
    IF HasName(file_info) /\ CacheGet(cache, file_info.name) # <<>>
    THEN <<_analyze_changes(code, CacheGet(cache, file_info.name)[1])>>
    ELSE <<>>

\* the saving of the current analysis (lines 78-83)
StoreKeepFirst(cache, code, file_info, result) ==
    IF HasName(file_info) /\ CacheGet(cache, file_info.name) = <<>>
    THEN [cache EXCEPT ![file_info.name] = <<[code |-> code, analysis |-> result]>>]
    ELSE cache

StoreUnderDefaultName(cache, code, file_info, result) ==
    [cache EXCEPT ![IF HasName(file_info) THEN file_info.name ELSE "a.py"] =
                      <<[code |-> code, analysis |-> result]>>]

StoreSnapshot(cache, code, file_info, result) ==
    IF HasName(file_info)
    THEN [cache EXCEPT ![file_info.name] = <<[code |-> code, analysis |-> result]>>]
    ELSE cache

\* the AST step of analyze_code (lines 41-56)
AstStepSkipOnError(result, code, active_rules) ==
    IF ~Parses(code) THEN result
    ELSE LET Fill(ast_analysis) ==
                 IF ast_analysis.raised # "" THEN result
                 ELSE [result EXCEPT !.functions = ast_analysis.functions,
                                     !.classes = ast_analysis.classes,
                                     !.imports = ast_analysis.imports,
                                     !.dependencies = ast_analysis.dependencies,
                                     !.issues = @ \o ast_analysis.issues,
                                     !.suggestions = @ \o ast_analysis.suggestions]
         IN Strict(Fill, _analyze_ast(Tree(code), active_rules))

AstStep(result, code, active_rules) ==
    IF ~Parses(code)
    THEN [result EXCEPT !.issues = Append(@, <<"syntax error">>)]
    ELSE LET Fill(ast_analysis) ==
                 IF ast_analysis.raised # ""
                 THEN [result EXCEPT
                          !.issues = Append(@, <<"ast error", ast_analysis.raised>>)]
                 ELSE [result EXCEPT !.functions = ast_analysis.functions,
                                     !.classes = ast_analysis.classes,
                                     !.imports = ast_analysis.imports,
                                     !.dependencies = ast_analysis.dependencies,
                                     !.issues = @ \o ast_analysis.issues,
                                     !.suggestions = @ \o ast_analysis.suggestions]
         IN Strict(Fill, _analyze_ast(Tree(code), active_rules))

\* the file_info values and the active_rules passed to analyze_code: None, a
\* dictionary without a name, a named file; None (read as the empty set) or
\* the two rules the AST step consults
FileInfos ==
    {NoFileInfo, FileInfo({"path"}, "")} \cup {FileInfo({"name"}, n) : n \in FileNames}

RuleSets == {{}, {"maintain_style", "practical_improvements"}}

StepsStopAtFailure(code, file_info, active_rules) ==
    LET pattern_analysis == _analyze_patterns(code)
        failed == ~Parses(code) \/ _analyze_ast(Tree(code), active_rules).raised # ""
        Checks(result) ==
            IF failed THEN result
            ELSE [result EXCEPT
                     !.issues = @ \o _analyze_style(code) \o pattern_analysis.issues
                                  \o _analyze_security(code, file_info),
                     !.suggestions = @ \o pattern_analysis.suggestions]
        Structure(result) == Strict(Checks, AstStep(result, code, active_rules))
    IN Strict(Structure, [stats |-> _get_code_stats(code),
                          complexity |-> _analyze_complexity(code),
                          issues |-> <<>>, suggestions |-> <<>>,
                          functions |-> <<>>, classes |-> <<>>,
                          imports |-> <<>>, dependencies |-> <<>>,
                          version_changes |-> <<>>])

\* the steps of analyze_code that do not read the cache (lines 28-69)
Steps(code, file_info, active_rules) ==
    LET pattern_analysis == _analyze_patterns(code)
        Checks(result) ==
            [result EXCEPT
                !.issues = @ \o _analyze_style(code) \o pattern_analysis.issues
                             \o _analyze_security(code, file_info),
                !.suggestions = @ \o pattern_analysis.suggestions]
        Structure(result) == Strict(Checks, AstStep(result, code, active_rules))
    IN Strict(Structure, [stats |-> _get_code_stats(code),
                          complexity |-> _analyze_complexity(code),
                          issues |-> <<>>, suggestions |-> <<>>,
                          functions |-> <<>>, classes |-> <<>>,
                          imports |-> <<>>, dependencies |-> <<>>,
                          version_changes |-> <<>>])

\* Steps, computed once for each call of the catalogue
StepsDone ==
    [code \in CodeNames, file_info \in FileInfos, active_rules \in RuleSets |->
        Steps(code, file_info, active_rules)]

\* CodeAnalyzer.analyze_code: the AnalysisResult returned and the cache afterwards.
\* No step raises for a string code and a file_info whose name is a string, so
\* the outer handler (lines 87-98) is not entered.
analyze_code(cache, code, file_info, active_rules) ==
    LET Return(result) ==
            [result |-> result, cache |-> StoreSnapshot(cache, code, file_info, result)]
        Incremental(result) ==
            Strict(Return, [result EXCEPT !.version_changes =
                                              VersionChanges(cache, code, file_info, result)])
    IN Strict(Incremental, StepsDone[code, file_info, active_rules])

(***************************************************************************)
(* Specification SpecAnalyzer: one CodeAnalyzer under analyze_code calls   *)
(***************************************************************************)
InitAnalyzer ==
    /\ call = [op |-> "analyze_code", done |-> FALSE]
    /\ ret = None
    /\ previous_analyses = [n \in FileNames |-> <<>>]
    /\ last = <<>>
    /\ recent = [n \in FileNames |-> <<>>]
    /\ ServicesIdle

AnalyzeCode(code, file_info, active_rules) ==
    \E out \in {analyze_code(previous_analyses, code, file_info, active_rules)} :
       /\ previous_analyses' = out.cache
       /\ last' = <<[code |-> code, file_info |-> file_info,
                     active_rules |-> active_rules, result |-> out.result]>>
       /\ recent' = IF file_info.is_dict /\ "name" \in file_info.keys
                    THEN [recent EXCEPT ![file_info.name] =
                              <<[code |-> code, result |-> out.result]>>]
                    ELSE recent
       /\ UNCHANGED <<call, ret, chats, handler>>

NextAnalyzer ==
    \E code \in CodeNames, file_info \in FileInfos, active_rules \in RuleSets :
        AnalyzeCode(code, file_info, active_rules)

SpecAnalyzer == InitAnalyzer /\ [][NextAnalyzer]_vars

(***************************************************************************)
(* Properties of the code analyzer                                         *)
(***************************************************************************)
Called == last # <<>>
LastCall == last[1]
LastResult == last[1].result

\* the function definitions of a source, wherever they are in its tree
FunctionDefs(code) ==
    LET nodes == Walk(Tree(code))
    IN {i \in DOMAIN nodes : nodes[i].type = "FunctionDef"}

\* C6: with practical_improvements active, the suggestions of a parseable code
\* name every function that has more than 5 positional arguments.
C6_ManyArgumentsSuggested ==
    (Called /\ Parses(LastCall.code) /\ "practical_improvements" \in LastCall.active_rules) =>
        \A i \in FunctionDefs(LastCall.code) :
            LET node == Walk(Tree(LastCall.code))[i]
            IN node.args > 5 =>
                   \E k \in DOMAIN LastResult.suggestions :
                       /\ Len(LastResult.suggestions[k]) = 2
                       /\ LastResult.suggestions[k][2] = node.name

\* C7: _analyze_ast returns an analysis with one entry in functions for each
\* function definition of the tree (two for a module of two functions).
C7_OneEntryPerFunction ==
    (Called /\ Parses(LastCall.code)) =>
        LET analysis == _analyze_ast(Tree(LastCall.code), LastCall.active_rules)
        IN /\ analysis.raised = ""
           /\ Len(analysis.functions) = Cardinality(FunctionDefs(LastCall.code))
           /\ LastCall.code = "two" => Len(analysis.functions) = 2

ResultFields == {"stats", "complexity", "issues", "suggestions", "functions", "classes",
                 "imports", "dependencies", "version_changes"}

\* C8: analyze_code always returns an AnalysisResult; for a code that does not
\* parse, cognitive_load, nesting_depth and branches are 0, functions, classes,
\* imports and dependencies are empty and an issue reports the syntax error.
C8_ParseFailureIsRecovered ==
    Called =>
        /\ DOMAIN LastResult = ResultFields
        /\ ~Parses(LastCall.code) =>
              /\ LastResult.complexity.cognitive_load = 0
              /\ LastResult.complexity.nesting_depth = 0
              /\ LastResult.complexity.branches = 0
              /\ LastResult.functions = <<>> /\ LastResult.classes = <<>>
              /\ LastResult.imports = <<>> /\ LastResult.dependencies = <<>>
              /\ Contains(LastResult.issues, <<"syntax error">>)

\* C8 witness: an unparseable python file whose later steps still report findings.
C8_Witness ==
    /\ Called /\ LastCall.code = "bad" /\ LastCall.file_info = FileInfo({"name"}, "a.py")
    /\ LastResult.issues = <<<<"syntax error">>, <<"eval">>>>
    /\ LastResult.suggestions = <<<<"print">>>>

\* the call carries a file identity
Identified(c) == c.file_info.is_dict /\ "name" \in c.file_info.keys

\* C9: a call returns version_changes if and only if it carries a file identity
\* for which an earlier call was made; otherwise version_changes is absent.
C9_VersionChangesIffEarlierSnapshot ==
    [][LET c == last'[1]
       IN (c.result.version_changes # <<>>)
              <=> (Identified(c) /\ recent[c.file_info.name] # <<>>)]_vars

\* C9 witness: the second call for an identity returned version_changes while
\* the other identity has never been analysed.
C9_Witness ==
    /\ Called /\ Identified(LastCall) /\ LastCall.file_info.name = "a.py"
    /\ LastResult.version_changes # <<>>
    /\ recent["b.js"] = <<>>

\* C10: the cache holds for every identity exactly the (code, result) pair of the
\* most recent call made with it; a call leaves the entries of the other
\* identities unchanged; and its version-change analysis compares the current
\* code with the cached code of its identity.
C10_CacheHoldsMostRecent ==
    /\ [](\A n \in FileNames :
            previous_analyses[n] =
                IF recent[n] = <<>> THEN <<>>
                ELSE <<[code |-> recent[n][1].code, analysis |-> recent[n][1].result]>>)
    /\ [][LET c == last'[1]
          IN /\ \A m \in FileNames :
                    (~Identified(c) \/ m # c.file_info.name) =>
                        previous_analyses'[m] = previous_analyses[m]
             /\ (Identified(c) /\ recent[c.file_info.name] # <<>>) =>
                    LET before == recent[c.file_info.name][1]
                        changes == c.result.version_changes[1]
                    IN /\ changes.complexity_delta =
                              _analyze_complexity(c.code).cognitive_load
                              - _analyze_complexity(before.code).cognitive_load
                       /\ changes = _analyze_changes(c.code, [code |-> before.code,
                                                             analysis |-> before.result])]_vars

\* C10 witness: both identities are cached, and the last call replaced the
\* snapshot of a.py by a code of different complexity.
C10_Witness ==
    /\ Called /\ Identified(LastCall) /\ LastCall.file_info.name = "a.py"
    /\ previous_analyses["b.js"] # <<>>
    /\ previous_analyses["a.py"] = <<[code |-> LastCall.code, analysis |-> LastResult]>>
    /\ LastResult.version_changes # <<>>
    /\ LastResult.version_changes[1].complexity_delta # 0

\* the cache entry of the identity of a call, before the call
Cached(c) == previous_analyses[c.file_info.name]

\* C11: a call for a file identity whose code is identical to the cached
\* snapshot returns version_changes with lines_added = 0, lines_removed = 0 and
\* no breaking change.
C11_IdenticalCodeNoChanges ==
    [][LET c == last'[1]
       IN (Identified(c) /\ Cached(c) # <<>> /\ Cached(c)[1].code = c.code) =>
              /\ c.result.version_changes # <<>>
              /\ c.result.version_changes[1].lines_added = 0
              /\ c.result.version_changes[1].lines_removed = 0
              /\ c.result.version_changes[1].breaking_changes = <<>>]_vars

\* C11 witness: the sample of two functions analysed again for a.py, unchanged.
C11_Witness ==
    /\ Called /\ Identified(LastCall) /\ LastCall.code = "two"
    /\ LastResult.version_changes # <<>>
    /\ LastResult.version_changes[1].lines_added = 0
    /\ LastResult.version_changes[1].lines_removed = 0
    /\ LastResult.version_changes[1].diff_summary = <<>>
    /\ LastResult.stats.total_lines = 16

\* C12: a call without a file identity returns the stats and the complexity of
\* its code alone, the same as any other such call with that code whatever the
\* cache holds, the file_info and the rules are; and it leaves the cache unchanged.
C12_AnonymousCallIsPure ==
    [][LET c == last'[1]
       IN ~Identified(c) =>
              /\ previous_analyses' = previous_analyses
              /\ c.result.stats = _get_code_stats(c.code)
              /\ c.result.complexity = _analyze_complexity(c.code)
              /\ (last # <<>> /\ ~Identified(last[1]) /\ last[1].code = c.code) =>
                     /\ c.result.stats = last[1].result.stats
                     /\ c.result.complexity = last[1].result.complexity]_vars

\* C12 witness: a call without identity made while both identities are cached.
C12_Witness ==
    /\ Called /\ ~Identified(LastCall) /\ LastCall.code = "two"
    /\ previous_analyses["a.py"] # <<>> /\ previous_analyses["b.js"] # <<>>
    /\ previous_analyses["a.py"][1].code # "two"
    /\ LastResult.complexity.cognitive_load = 7

\* the generic patterns that occur in a source
Credentials(code) == {m \in Matches(code) : Contains(GenericPatterns, m)}

\* C13: for a code with an assignment to password, api_key, secret or token the
\* issues contain a hardcoded-credential finding, whatever the file_info is.
C13_CredentialReported ==
    (Called /\ Credentials(LastCall.code) # {}) =>
        \A m \in Credentials(LastCall.code) : Contains(LastResult.issues, <<m>>)

\* C13 witness: the password and the token of a javascript file are reported.
C13_Witness ==
    /\ Called /\ LastCall.code = "plain" /\ LastCall.file_info = FileInfo({"name"}, "b.js")
    /\ LastCall.active_rules = {}
    /\ LastResult.issues = <<<<"password">>, <<"token">>>>

\* C17: analysing the empty string gives total_lines = 0 and no issue and no
\* suggestion.
C17_EmptyCodeHasNoLines ==
    (Called /\ LastCall.code = "empty") =>
        /\ LastResult.stats.total_lines = 0
        /\ LastResult.issues = <<>>
        /\ LastResult.suggestions = <<>>

\* the AST step of a call failed: the code does not parse or the visit raised
AstFailed(c) ==
    ~Parses(c.code) \/ _analyze_ast(Tree(c.code), c.active_rules).raised # ""

\* C18: when the AST step fails the result still carries the statistics, one
\* issue for the failed step and every finding of the style, pattern and
\* security steps.
C18_LaterStepsSurviveAstFailure ==
    (Called /\ AstFailed(LastCall)) =>
        /\ LastResult.stats = _get_code_stats(LastCall.code)
        /\ Len(LastResult.issues) >= 1
        /\ Head(LastResult.issues)[1] \in {"syntax error", "ast error"}
        /\ Tail(LastResult.issues) =
               _analyze_style(LastCall.code) \o _analyze_patterns(LastCall.code).issues
               \o _analyze_security(LastCall.code, LastCall.file_info)
        /\ LastResult.suggestions = _analyze_patterns(LastCall.code).suggestions

\* C18 witness: the visit of the sample raised and its five style findings
\* follow the issue of the failed step.
C18_Witness ==
    /\ Called /\ LastCall.code = "two" /\ Parses(LastCall.code)
    /\ Len(LastResult.issues) = 6
    /\ LastResult.issues[1] = <<"ast error", "NameError">>
    /\ LastResult.issues[2] = <<"inconsistent indentation">>
    /\ LastResult.functions = <<>>

(***************************************************************************)
(* Specification SpecDiff: the diff summary of a list of diff lines and    *)
(* the summary of a change block                                           *)
(***************************************************************************)
MaxDiff == 3

\* texts that between them match every pattern of the table, one of them two
\* patterns, and a text that matches none
DiffTexts == {"def f(:", "class K:", "import os", "    return a", "if x: return 1",
              "    for num in numbers:", "while True:", "try:", "x = 1"}

ChangeLines == {Line(tag, text) : tag \in {"+ ", "- "}, text \in DiffTexts}

DiffLines == ChangeLines \cup {Line("? ", ""), Line("  ", "x = 1")}

DiffCalls ==
    [op : {"_generate_diff_summary"},
     diff : UNION {[1..n -> DiffLines] : n \in 0..MaxDiff}, done : {FALSE}]
    \cup [op : {"_summarize_change_block"},
          block : UNION {[1..n -> ChangeLines] : n \in 0..MaxDiff}, done : {FALSE}]

InitDiff ==
    /\ call \in DiffCalls
    /\ ret = None
    /\ AnalyzerIdle
    /\ ServicesIdle

GenerateDiffSummary ==
    /\ call.op = "_generate_diff_summary" /\ ~call.done
    /\ ret' = _generate_diff_summary(call.diff)
    /\ call' = [call EXCEPT !.done = TRUE]
    /\ UNCHANGED <<previous_analyses, last, recent, chats, handler>>

SummarizeChangeBlock ==
    /\ call.op = "_summarize_change_block" /\ ~call.done
    /\ ret' = _summarize_change_block(call.block)
    /\ call' = [call EXCEPT !.done = TRUE]
    /\ UNCHANGED <<previous_analyses, last, recent, chats, handler>>

NextDiff == GenerateDiffSummary \/ SummarizeChangeBlock

SpecDiff == InitDiff /\ [][NextDiff]_vars

(***************************************************************************)
(* Properties of the diff summary                                          *)
(***************************************************************************)
GenerateDiffSummaryDone == call.op = "_generate_diff_summary" /\ call.done
SummarizeChangeBlockDone == call.op = "_summarize_change_block" /\ call.done

\* a diff with its "? " lines turned into context lines, or left out
RECURSIVE HintsAsContext(_), WithoutHints(_)
HintsAsContext(diff) ==
    IF diff = <<>> THEN <<>>
    ELSE <<IF Tag(Head(diff)) = "? " THEN Line("  ", "") ELSE Head(diff)>>
         \o HintsAsContext(Tail(diff))

WithoutHints(diff) ==
    IF diff = <<>> THEN <<>>
    ELSE (IF Tag(Head(diff)) = "? " THEN <<>> ELSE <<Head(diff)>>)
         \o WithoutHints(Tail(diff))

\* C19 as stated: a "? " line flushes the current block as a context line
\* does, so the summary is that of the diff with context lines in their place.
C19_HintLineFlushes ==
    GenerateDiffSummaryDone => ret = _generate_diff_summary(HintsAsContext(call.diff))

\* C19 amended: a "? " line is skipped; it neither joins nor flushes the
\* current block, so the summary is that of the diff without its "? " lines.
C19_HintLineIsSkipped ==
    GenerateDiffSummaryDone => ret = _generate_diff_summary(WithoutHints(call.diff))

\* C19 witness: an added and a removed line separated by a "? " line give one
\* summary, that of the two-line block.
C19_Witness ==
    /\ GenerateDiffSummaryDone
    /\ call.diff = <<Line("- ", "x = 1"), Line("? ", ""), Line("+ ", "    return a")>>
    /\ ret = <<<<"Aggiunto", "return statement">>>>

\* the patterns of the table that match a line of the block with one of the tags
MatchingPatterns(block, tags) ==
    {i \in DOMAIN ChangePatterns :
        \E k \in DOMAIN block : /\ Tag(block[k]) \in tags
                                /\ Search(ChangePatterns[i].regex, Text(block[k])) # <<>>}

\* C20: the summary of a non-empty block is the one of the first pattern of the
\* table that matches an added or a removed line, with the Added label when an
\* added line matches it and the Removed label otherwise; when no pattern
\* matches it is the one-line message for a block of one line and the N-lines
\* message otherwise.
C20_FirstPatternInTableOrder ==
    (SummarizeChangeBlockDone /\ call.block # <<>>) =>
        LET matching == MatchingPatterns(call.block, {"+ ", "- "})
        IN IF matching = {}
           THEN ret = IF Len(call.block) = 1 THEN <<"Modificata una linea">>
                      ELSE <<"Modificate", ToString(Len(call.block)), "linee">>
           ELSE LET i == CHOOSE m \in matching : \A n \in matching : m <= n
                IN /\ ret[1] = IF i \in MatchingPatterns(call.block, {"+ "})
                               THEN "Aggiunto" ELSE "Rimosso"
                   /\ ret[2] = ChangePatterns[i].description
                   /\ Len(ret) = IF ChangePatterns[i].groups THEN 3 ELSE 2

\* C20 witness: the removed def wins over the added import that precedes it.
C20_Witness ==
    /\ SummarizeChangeBlockDone
    /\ call.block = <<Line("+ ", "import os"), Line("+ ", "if x: return 1"),
                      Line("- ", "def f(:")>>
    /\ ret = <<"Rimosso", "funzione", "f">>

(***************************************************************************)
(* chat_interface.py: the language of a snippet and the fenced blocks of a *)
(* message.  A text is the sequence of its lines, none of them blank.      *)
(***************************************************************************)
\* lines of snippets: one indented, one with trailing blanks, two in upper
\* case, and between them indicators of every language
SnippetLines ==
    {"def f(x):",
     "    return self.x",
     "SELECT * FROM t WHERE x=1",
     "const f = () => {}",
     "# title",
     "x = None",
     "let x",
     "JOIN b",
     "    total: 1",
     "hello  ",
     "<div>hi</div>"}

\* str.lstrip, str.rstrip and str.lower on the lines of the catalogue (and
\* str.lower on the indicators that have capitals)
lstrip(text) ==
    CASE text = "    return self.x" -> "return self.x"
      [] text = "    total: 1" -> "total: 1"
      [] OTHER -> text

rstrip(text) ==
    CASE text = "hello  " -> "hello"
      [] OTHER -> text

lower(text) ==
    CASE text = "SELECT * FROM t WHERE x=1" -> "select * from t where x=1"
      [] text = "x = None" -> "x = none"
      [] text = "JOIN b" -> "join b"
      [] text = "None" -> "none"
      [] text = "True" -> "true"
      [] text = "False" -> "false"
      [] OTHER -> text

\* str.strip on a text: the blanks before its first line and after its last
strip(code) ==
    [k \in DOMAIN code |->
        LET left == IF k = 1 THEN lstrip(code[k]) ELSE code[k]
        IN IF k = Len(code) THEN rstrip(left) ELSE left]

\* the occurrences of a substring in a line, case-sensitive, where there are any
Occurrences ==
    "def f(x):" :> ("def " :> 1 @@ ":" :> 1 @@ "def" :> 1)
    @@ "    return self.x" :> ("return " :> 1 @@ "self." :> 1 @@ "    " :> 1)
    @@ "return self.x" :> ("return " :> 1 @@ "self." :> 1)
    @@ "select * from t where x=1" :> ("from " :> 1 @@ "select " :> 1 @@ "where " :> 1)
    @@ "const f = () => {}" :> ("const " :> 1 @@ "=>" :> 1 @@ "{" :> 1)
    @@ "# title" :> ("#" :> 1)
    @@ "x = None" :> ("None" :> 1)
    @@ "x = none" :> ("none" :> 1)
    @@ "let x" :> ("let " :> 1)
    @@ "join b" :> ("join " :> 1)
    @@ "    total: 1" :> ("    " :> 1 @@ ":" :> 1)
    @@ "total: 1" :> (":" :> 1)
    @@ "<div>hi</div>" :> ("<div" :> 1 @@ "</div>" :> 1)

RECURSIVE Sum(_)
\* the sum of a sequence of numbers
Sum(numbers) ==
    IF numbers = <<>> THEN 0 ELSE Head(numbers) + Strict(Sum, Tail(numbers))

\* str.count on a text: no substring looked for spans two lines
count(code, sub) ==
    Sum([k \in DOMAIN code |->
            IF code[k] \in DOMAIN Occurrences
            THEN IF sub \in DOMAIN Occurrences[code[k]]
                 THEN Occurrences[code[k]][sub] ELSE 0
            ELSE 0])

\* sub in code
occurs(code, sub) == count(code, sub) > 0

indicators ==
    <<[lang |-> "python", list |-> <<<<"def ", 3>>, <<"class ", 3>>, <<"import ", 2>>, <<"from ", 2>>, <<"@", 1>>, <<"if __name__", 3>>, <<".py", 2>>, <<"print(", 1>>, <<"return ", 1>>, <<"#", 1>>, <<"self.", 2>>, <<"elif ", 2>>, <<"None", 1>>, <<"True", 1>>, <<"False", 1>>, <<"try:", 2>>, <<"except:", 2>>, <<"with ", 2>>>>],
      [lang |-> "javascript", list |-> <<<<"function ", 3>>, <<"const ", 2>>, <<"let ", 2>>, <<"var ", 2>>, <<"=>", 3>>, <<"document.", 3>>, <<"window.", 3>>, <<".js", 2>>, <<"console.log(", 2>>, <<"===", 2>>, <<"!==", 2>>, <<"undefined", 2>>>>],
      [lang |-> "html", list |-> <<<<"<html", 3>>, <<"<body", 2>>, <<"<div", 2>>, <<"<p>", 1>>, <<"<script", 2>>, <<"<head", 2>>, <<"<style", 2>>, <<"<link", 1>>, <<"<meta", 1>>, <<"</div>", 2>>>>],
      [lang |-> "css", list |-> <<<<"{", 1>>, <<"margin:", 2>>, <<"padding:", 2>>, <<"color:", 2>>, <<"background:", 2>>, <<"font-", 2>>, <<"border:", 2>>, <<"@media", 3>>, <<"#", 1>>, <<".class", 1>>, <<"px;", 2>>, <<"em;", 2>>, <<"rem;", 2>>>>],
      [lang |-> "sql", list |-> <<<<"select ", 3>>, <<"from ", 2>>, <<"where ", 2>>, <<"insert into", 3>>, <<"update ", 2>>, <<"delete from", 3>>, <<"create table", 3>>, <<"join ", 2>>, <<"group by", 2>>, <<"order by", 2>>>>]>>

\* the sum of occurrences * weight over a list of indicators
Weighted(code, list) ==
    Sum([k \in DOMAIN list |-> count(code, list[k][1]) * list[k][2]])

\* scores after the loop over the tables, by position in the dict (joined to
\* the empty tuple, a tuple of numbers rather than a rule to compute them)
Scores(code) ==
    [i \in DOMAIN indicators |-> Weighted(code, indicators[i].list)] @@ <<>>

PythonIndicators(code) ==
    LET list == indicators[1].list
    IN Cardinality({k \in DOMAIN list : occurs(code, list[k][1])})

\* scores after the special case of python code with braces
Boosted(code) ==
    LET scores == Scores(code)
    IN IF scores[1] > 0 /\ occurs(code, "{") /\ PythonIndicators(code) >= 3
       THEN [scores EXCEPT ![1] = @ + 2]
       ELSE scores

MaxScore(scores) ==
    CHOOSE m \in {scores[i] : i \in DOMAIN scores} :
        \A i \in DOMAIN scores : scores[i] <= m

\* the first language with a score (variant of FirstMax that ignores the others)
FirstPositive(scores) ==
    CHOOSE i \in DOMAIN scores :
        /\ scores[i] > 0
        /\ \A j \in DOMAIN scores : scores[j] > 0 => i <= j

\* max(scores.items(), key=...): the first of the dict with the highest score
FirstMax(scores) ==
    CHOOSE i \in DOMAIN scores :
        /\ scores[i] = MaxScore(scores)
        /\ \A j \in DOMAIN scores : scores[j] = MaxScore(scores) => i <= j

GuessFrom(code, scores) ==
    LET max_score == MaxScore(scores)
        candidates == {i \in DOMAIN scores : scores[i] = max_score}
    IN IF /\ max_score = 0
          /\ occurs(code, "    ") \/ occurs(code, "\t")
          /\ occurs(code, ":") \/ occurs(code, "def") \/ occurs(code, "class")
       THEN "python"
       ELSE IF max_score > 0
       THEN IF /\ Cardinality(candidates) > 1 /\ 1 \in candidates
               /\ PythonIndicators(code) > 0
            THEN "python"
            ELSE indicators[FirstMax(scores)].lang
       ELSE "text"

\* code.strip().lower()
Normalized(code) == [k \in DOMAIN code |-> lower(strip(code)[k])] @@ <<>>

GuessNormalized(code) ==
    LET Choice(scores) == GuessFrom(code, scores)
    IN Strict(Choice, Boosted(code))

_guess_language(code) == Strict(GuessNormalized, Normalized(code))

\* lines that open or close a fenced block, and the tag that follows the fence;
\* a string cannot hold a backtick, so ''' is written for the three backticks
FenceLines == {"'''", "'''python", "'''c++"}

IsFence(line) == line \in FenceLines

FenceTag(line) ==
    CASE line = "'''" -> ""
      [] line = "'''python" -> "python"
      [] line = "'''c++" -> "c++"

\* (\w+)? followed by the end of the line: no tag, or a tag of word characters
WordTag(tag) == tag \in {"", "python"}

\* the first fence line at or after a line, 0 when there is none
NextFence(text, from) ==
    LET later == {j \in from..Len(text) : IsFence(text[j])}
    IN IF later = {} THEN 0 ELSE CHOOSE j \in later : \A k \in later : j <= k

\* match.group(0): from the opening fence to the fence that closes it
Original(text, i, j) == SubSeq(text, i, j - 1) \o <<"'''">>

RECURSIVE WithLang(_, _), WithoutLang(_, _), AppendNew(_, _)
\* the blocks of pattern_with_lang from a line on: the fence and its tag, a
\* line break, the shortest text that a line break and a fence follow
WithLang(text, i) ==
    IF i > Len(text) THEN <<>>
    ELSE LET j == NextFence(text, i + 2)
         IN IF IsFence(text[i]) /\ WordTag(FenceTag(text[i])) /\ j # 0
            THEN <<[language |-> IF FenceTag(text[i]) = "" THEN "text"
                                 ELSE FenceTag(text[i]),
                    code |-> strip(SubSeq(text, i + 1, j - 1)),
                    original |-> Original(text, i, j)]>>
                 \o WithLang(text, j + 1)
            ELSE WithLang(text, i + 1)

\* the matches of pattern_without_lang from a line on: from a fence to the
\* next one, the rest of the opening line being part of the group
WithoutLang(text, i) ==
    IF i > Len(text) THEN <<>>
    ELSE LET j == NextFence(text, i + 1)
         IN IF IsFence(text[i]) /\ j # 0
            THEN <<[group |-> (IF FenceTag(text[i]) = "" THEN <<>>
                               ELSE <<FenceTag(text[i])>>)
                              \o SubSeq(text, i + 1, j - 1),
                    original |-> Original(text, i, j)]>>
                 \o WithoutLang(text, j + 1)
            ELSE WithoutLang(text, i + 1)

\* the second loop: a match is a new block unless a block has its original
AppendNew(code_blocks, matches) ==
    IF matches = <<>> THEN code_blocks
    ELSE LET match == Head(matches)
             New(code) == [language |-> _guess_language(code),
                           code |-> code,
                           original |-> match.original]
             Rest(blocks) == AppendNew(blocks, Tail(matches))
         IN Strict(Rest,
                   IF \E k \in DOMAIN code_blocks :
                          code_blocks[k].original = match.original
                   THEN code_blocks
                   ELSE Append(code_blocks, Strict(New, strip(match.group))))

_detect_code_blocks(text) ==
    LET Second(code_blocks) == AppendNew(code_blocks, WithoutLang(text, 1))
    IN Strict(Second, WithLang(text, 1))

(***************************************************************************)
(* Specification SpecChat: the language guessed for a snippet and the      *)
(* blocks detected in a message                                            *)
(***************************************************************************)
MaxSnippet == 3
MaxText == 4

Snippets == UNION {[1..n -> SnippetLines] : n \in 0..MaxSnippet}

MessageLines == FenceLines \cup {"    return self.x", "def f(x):", "hello  "}

Messages == UNION {[1..n -> MessageLines] : n \in 0..MaxText}

ChatCalls ==
    [op : {"_guess_language"}, code : Snippets, done : {FALSE}]
    \cup [op : {"_detect_code_blocks"}, text : Messages, done : {FALSE}]

InitChat ==
    /\ call \in ChatCalls
    /\ ret = None
    /\ AnalyzerIdle
    /\ ServicesIdle

GuessLanguage ==
    /\ call.op = "_guess_language" /\ ~call.done
    /\ ret' = _guess_language(call.code)
    /\ call' = [call EXCEPT !.done = TRUE]
    /\ UNCHANGED <<previous_analyses, last, recent, chats, handler>>

DetectCodeBlocks ==
    /\ call.op = "_detect_code_blocks" /\ ~call.done
    /\ ret' = _detect_code_blocks(call.text)
    /\ call' = [call EXCEPT !.done = TRUE]
    /\ UNCHANGED <<previous_analyses, last, recent, chats, handler>>

NextChat == GuessLanguage \/ DetectCodeBlocks

SpecChat == InitChat /\ [][NextChat]_vars

(***************************************************************************)
(* Properties of the fenced blocks and of the guessed language             *)
(***************************************************************************)
GuessLanguageDone == call.op = "_guess_language" /\ call.done
DetectCodeBlocksDone == call.op = "_detect_code_blocks" /\ call.done

\* a message that is one fenced block with a tag: the opening fence with its
\* tag, lines that are no fences, the closing fence
SingleTaggedBlock(text) ==
    /\ Len(text) >= 2
    /\ IsFence(text[1]) /\ FenceTag(text[1]) # ""
    /\ text[Len(text)] = "'''"
    /\ \A k \in 2..(Len(text) - 1) : ~IsFence(text[k])

\* C14: for a message that is one fenced block with an explicit tag,
\* _detect_code_blocks returns exactly one block, whose language is the tag
\* and whose code is the lines between the fences, blanks included.
C14_TaggedBlockRoundTrip ==
    (DetectCodeBlocksDone /\ SingleTaggedBlock(call.text)) =>
        /\ Len(ret) = 1
        /\ ret[1].language = FenceTag(call.text[1])
        /\ ret[1].code = SubSeq(call.text, 2, Len(call.text) - 1)

\* the scores the choice is made on, and the languages that have the highest
FinalScores(code) == Boosted(Normalized(code))

Best(scores) ==
    {indicators[i].lang : i \in {k \in DOMAIN scores : scores[k] = MaxScore(scores)}}

\* C15: when a language has a score above zero, _guess_language returns a
\* language with the highest score after the python boost, and python when
\* python is one of them; a snippet whose only indicator is "def " gives
\* python and SELECT * FROM t WHERE x=1 gives sql.
C15_GuessIsArgmaxPythonOnTies ==
    GuessLanguageDone =>
        /\ \A scores \in {FinalScores(call.code)} :
              MaxScore(scores) > 0 =>
                  /\ ret \in Best(scores)
                  /\ "python" \in Best(scores) => ret = "python"
        /\ call.code = <<"def f(x):">> => ret = "python"
        /\ call.code = <<"SELECT * FROM t WHERE x=1">> => ret = "sql"

\* C15 witness: the title line scores one for python and one for css.
C15_Witness ==
    /\ GuessLanguageDone
    /\ call.code = <<"# title">>
    /\ Best(FinalScores(call.code)) = {"python", "css"}
    /\ ret = "python"

(***************************************************************************)
(* Specification SpecChanges: the changes between two versions of a file   *)
(***************************************************************************)
\* a snapshot of the cache: the source of a version and the complexity of
\* its analysis
Snapshot(code) == [code |-> code, analysis |-> [complexity |-> Complexity[code]]]

ChangeCalls ==
    [op : {"_analyze_changes"}, current_code : Versions,
     previous : {Snapshot(code) : code \in Versions}, done : {FALSE}]

InitChanges ==
    /\ call \in ChangeCalls
    /\ ret = None
    /\ AnalyzerIdle
    /\ ServicesIdle

AnalyzeChanges ==
    /\ call.op = "_analyze_changes" /\ ~call.done
    /\ ret' = _analyze_changes(call.current_code, call.previous)
    /\ call' = [call EXCEPT !.done = TRUE]
    /\ UNCHANGED <<previous_analyses, last, recent, chats, handler>>

NextChanges == AnalyzeChanges

SpecChanges == InitChanges /\ [][NextChanges]_vars

(***************************************************************************)
(* Properties of the changes between two versions                          *)
(***************************************************************************)
AnalyzeChangesDone == call.op = "_analyze_changes" /\ call.done

\* the function definitions of a source, nested ones included
Definitions(code) ==
    LET nodes == Walk(Tree(code))
    IN {nodes[i] : i \in {k \in DOMAIN nodes : nodes[k].type = "FunctionDef"}}

Defined(code) == {node.name : node \in Definitions(code)}

\* the argument count of a name: that of its last definition
Arguments(code, name) == FuncArgs(Walk(Tree(code)), name)

Entries(list) == {list[i] : i \in DOMAIN list}

\* C21: for two versions that parse, every function of the previous version
\* that the current one lacks is a breaking change, every function of both
\* with another number of arguments is a breaking change of signature, and
\* every function of the current version alone is a new function among the
\* significant changes and has no entry among the breaking ones.
C21_FunctionChangesReported ==
    (AnalyzeChangesDone /\ Parses(call.current_code) /\ Parses(call.previous.code)) =>
        LET current == Defined(call.current_code)
            previous == Defined(call.previous.code)
        IN /\ \A name \in previous \ current :
                  <<"removed", name>> \in Entries(ret.breaking_changes)
           /\ \A name \in previous \cap current :
                  Arguments(call.previous.code, name) # Arguments(call.current_code, name)
                      => <<"signature changed", name>> \in Entries(ret.breaking_changes)
           /\ \A name \in current \ previous :
                  /\ <<"new function", name>> \in Entries(ret.significant_changes)
                  /\ \A entry \in Entries(ret.breaking_changes) : entry[2] # name

\* C21 witness: f had six arguments in its last definition and has one now.
C21_Witness ==
    /\ AnalyzeChangesDone
    /\ call.previous.code = "twice" /\ call.current_code = "one"
    /\ ret.breaking_changes = <<<<"signature changed", "f">>>>
    /\ ret.significant_changes = <<>>

(***************************************************************************)
(* Specification SpecComplexity: the complexity of a source, for every     *)
(* tree of a few compound statements                                       *)
(***************************************************************************)
MaxNodes == 3

CompoundKinds == {"FunctionDef", "ClassDef", "If", "For", "While", "Try", "Try2"}

\* a compound statement of a kind; a body is never empty
Compound(kind, body) ==
    LET block == IF body = <<>> THEN <<Stmt>> ELSE body
    IN CASE kind = "FunctionDef" -> FunctionDef("f", 0, FALSE, block)
         [] kind = "ClassDef" -> ClassDef("K", FALSE, block)
         [] kind = "If" -> If(block)
         [] kind = "For" -> For(block)
         [] kind = "While" -> While(block)
         [] kind = "Try" -> Try(1, block)
         [] kind = "Try2" -> Try(2, block)

RECURSIVE Forests(_)
\* the statement lists with a number of compound statements, nested or in a row
Forests(n) ==
    IF n = 0 THEN {<<>>}
    ELSE UNION {{<<Compound(kind, body)>> \o rest :
                    kind \in CompoundKinds, body \in Forests(i), rest \in Forests(n - 1 - i)} :
                i \in 0..(n - 1)}

Sources ==
    {[parses |-> FALSE, tree |-> <<>>]}
    \cup {[parses |-> TRUE, tree |-> tree] : tree \in UNION {Forests(n) : n \in 0..MaxNodes}}

ComplexityCalls == [op : {"_analyze_complexity"}, source : Sources, done : {FALSE}]

InitComplexity ==
    /\ call \in ComplexityCalls
    /\ ret = None
    /\ AnalyzerIdle
    /\ ServicesIdle

AnalyzeComplexity ==
    /\ call.op = "_analyze_complexity" /\ ~call.done
    /\ ret' = ComplexityOfSource(call.source)
    /\ call' = [call EXCEPT !.done = TRUE]
    /\ UNCHANGED <<previous_analyses, last, recent, chats, handler>>

NextComplexity == AnalyzeComplexity

SpecComplexity == InitComplexity /\ [][NextComplexity]_vars

(***************************************************************************)
(* Properties of the complexity                                            *)
(***************************************************************************)
AnalyzeComplexityDone == call.op = "_analyze_complexity" /\ call.done

NodesOf(nodes, types) == Cardinality({k \in DOMAIN nodes : nodes[k].type \in types})

RECURSIVE Nesting(_)
\* the most if, for, while and try statements inside one another
Nesting(nodes) ==
    IF nodes = <<>> THEN 0
    ELSE Max((IF Head(nodes).type \in {"If", "For", "While", "Try"} THEN 1 ELSE 0)
             + Nesting(Head(nodes).body),
             Nesting(Tail(nodes)))

\* C22: for a source that parses, cognitive_load is the number of function
\* and class definitions, ifs and tries plus twice the number of for and
\* while loops; branches is the number of ifs and loops plus, for each try,
\* its handlers and one; nesting_depth is the most if, for, while and try
\* statements inside one another; total_complexity is cognitive_load plus
\* twice nesting_depth plus branches; the depth counter is 0 after the walk.
C22_ComplexityFormula ==
    (AnalyzeComplexityDone /\ call.source.parses) =>
        \A nodes \in {Walk(call.source.tree)} :
            /\ ret.cognitive_load =
                   NodesOf(nodes, {"FunctionDef", "ClassDef", "If", "Try"})
                   + 2 * NodesOf(nodes, {"For", "While"})
            /\ ret.branches =
                   NodesOf(nodes, {"If", "For", "While"})
                   + Sum([k \in DOMAIN nodes |->
                             IF nodes[k].type = "Try" THEN nodes[k].handlers + 1 ELSE 0])
            /\ ret.nesting_depth = Nesting(call.source.tree)
            /\ ret.total_complexity =
                   ret.cognitive_load + 2 * ret.nesting_depth + ret.branches
            /\ ComplexityVisitAll(call.source.tree, ComplexityVisitorInit).current_depth = 0

\* C22 witness: a loop around an if, then a try with two handlers.
C22_Witness ==
    /\ AnalyzeComplexityDone
    /\ call.source.parses
    /\ call.source.tree = <<For(<<If(<<Stmt>>)>>), Try(2, <<Stmt>>)>>
    /\ ret.cognitive_load = 4 /\ ret.branches = 5 /\ ret.nesting_depth = 2
    /\ ret.total_complexity = 13

(***************************************************************************)
(* Specification SpecSuggest: suggest_rules                                *)
(***************************************************************************)
\* a greeting, a declaration, a request with a JSON object and a bare request
UserInputs == {<<"ciao">>, <<"def">>, <<"analizza", "json">>, <<"analizza">>}

\* the contexts with any of the keys user_input, available_files, file_type
SuggestContexts ==
    {Dict(keys,
          IF "file_type" \in keys THEN file_type ELSE "",
          IF "available_files" \in keys THEN files ELSE <<>>,
          IF "user_input" \in keys THEN input ELSE <<>>) :
        keys \in SUBSET {"user_input", "available_files", "file_type"},
        file_type \in {"py", "txt"}, files \in ContextFileLists, input \in UserInputs}

SuggestCalls == [op : {"suggest_rules"}, context : SuggestContexts, done : {FALSE}]

InitSuggest ==
    /\ call \in SuggestCalls
    /\ ret = None
    /\ AnalyzerIdle
    /\ ServicesIdle

SuggestRules ==
    /\ call.op = "suggest_rules" /\ ~call.done
    /\ ret' = suggest_rules(call.context)
    /\ call' = [call EXCEPT !.done = TRUE]
    /\ UNCHANGED <<previous_analyses, last, recent, chats, handler>>

NextSuggest == SuggestRules

SpecSuggest == InitSuggest /\ [][NextSuggest]_vars

(***************************************************************************)
(* Properties of suggest_rules                                             *)
(***************************************************************************)
SuggestRulesDone == call.op = "suggest_rules" /\ call.done

\* the extensions of the files of a context, in lower case
Extensions(context) ==
    IF HasKey(context, "available_files")
    THEN {Lower(context.available_files[i].ext) : i \in DOMAIN context.available_files}
    ELSE {}

\* the categories the files of a context stand for
FileCategories(context) ==
    {category \in {"code", "data", "config"} :
        Extensions(context) \cap
            (CASE category = "code" -> {"py", "js", "html", "css", "cpp", "java"}
               [] category = "data" -> {"json", "csv", "yaml", "yml"}
               [] category = "config" -> {"yml", "yaml", "conf", "ini", "env"}) # {}}

RECURSIVE Kept(_, _)
\* the elements of a list that are in a set, in the order of the list
Kept(list, set) ==
    IF list = <<>> THEN <<>>
    ELSE (IF Head(list) \in set THEN <<Head(list)>> ELSE <<>>) \o Kept(Tail(list), set)

\* C23: suggest_rules returns a list without repetition: first the category
\* the classifier derives from user_input when it is conversation, code or
\* data, then those of code, data and config, in this order, that the
\* extensions of the files stand for; each of the three is in the list when
\* a file has one of its extensions.
C23_SuggestedRulesOrdered ==
    SuggestRulesDone =>
        LET context == call.context
            first == IF HasKey(context, "user_input")
                        /\ determine_content_type(context.user_input, context)
                               \in {"conversation", "code", "data"}
                     THEN <<determine_content_type(context.user_input, context)>>
                     ELSE <<>>
        IN /\ ret = first \o Kept(<<"code", "data", "config">>,
                                  FileCategories(context) \ Entries(first))
           /\ \A i, j \in DOMAIN ret : ret[i] = ret[j] => i = j
           /\ FileCategories(context) \subseteq Entries(ret)

\* C23 witness: a declaration as input and a Python and a YAML file.
C23_Witness ==
    /\ SuggestRulesDone
    /\ call.context.keys = {"user_input", "available_files"}
    /\ call.context.user_input = <<"def">>
    /\ Extensions(call.context) = {"py", "yml"}
    /\ ret = <<"code", "data", "config">>

(***************************************************************************)
(* Further properties of the rule engine                                   *)
(***************************************************************************)
\* the entry of a category in a dictionary category -> rules, empty if absent
RulesOf(table, category) == IF category \in DOMAIN table THEN table[category] ELSE {}

\* C24: with a known preset get_active_rules returns exactly the mandatory
\* rules of the content type and the rules the preset enables for the
\* category equal to the content type; with preset None or a name that is no
\* preset it returns exactly the mandatory and the default rules of the
\* content type.
C24_ActiveRulesExact ==
    GetActiveRulesDone =>
        LET mandatory == IF call.content_type \in DOMAIN ANALYSIS_RULES
                         THEN ANALYSIS_RULES[call.content_type].mandatory ELSE {}
            default == IF call.content_type \in DOMAIN ANALYSIS_RULES
                       THEN ANALYSIS_RULES[call.content_type].default ELSE {}
        IN IF call.preset \in DOMAIN RULE_PRESETS
           THEN ret = mandatory \cup RulesOf(RULE_PRESETS[call.preset], call.content_type)
           ELSE ret = mandatory \cup default

\* C24 witness: the technical preset on code leaves out two default rules of
\* code and the rules it enables for data.
C24_Witness ==
    /\ GetActiveRulesDone
    /\ call.content_type = "code" /\ call.preset = "technical"
    /\ ret = {"no_omissions", "maintain_style", "practical_improvements"}
    /\ ~(ANALYSIS_RULES["code"].default \subseteq ret)
    /\ ret \cap RULE_PRESETS["technical"].data = {}

\* C25: merge_rule_sets returns the mandatory and default rules of exactly
\* the categories of its list that ANALYSIS_RULES has; a category outside the
\* table, as config is, adds nothing, and a list of such categories alone
\* gives the empty set.
C25_UnknownCategoriesSkipped ==
    MergeRuleSetsDone =>
        LET known == Entries(call.rule_sets) \cap DOMAIN ANALYSIS_RULES
        IN /\ ret = UNION {ANALYSIS_RULES[category].mandatory
                           \cup ANALYSIS_RULES[category].default : category \in known}
           /\ known = {} => ret = {}

\* C25 witness: config before data leaves the rules of data alone.
C25_Witness ==
    /\ MergeRuleSetsDone
    /\ call.rule_sets = <<"config", "data">>
    /\ ret = ANALYSIS_RULES["data"].default

(***************************************************************************)
(* Further properties of the fenced blocks and of the guessed language     *)
(***************************************************************************)
\* C26: every block that _detect_code_blocks extracts from a fence without a
\* tag has the language that _guess_language gives for its code.
C26_UntaggedBlockIsGuessed ==
    DetectCodeBlocksDone =>
        \A k \in DOMAIN ret :
            ret[k].original[1] = "'''" => ret[k].language = _guess_language(ret[k].code)

\* the occurrences of an indicator in a snippet, whatever the case of letters
CaseInsensitive(code, indicator) ==
    count([k \in DOMAIN code |-> lower(code[k])] @@ <<>>, lower(indicator))

\* C27: the score of each language in _guess_language is the sum, over the
\* indicators of its table, of the weight times the number of occurrences of
\* the indicator in the snippet in any letter case.
C27_ScoreCountsAnyCase ==
    GuessLanguageDone =>
        \A scores \in {Scores(Normalized(call.code))} :
            \A i \in DOMAIN indicators :
                scores[i] = Sum([k \in DOMAIN indicators[i].list |->
                                    indicators[i].list[k][2]
                                    * CaseInsensitive(call.code, indicators[i].list[k][1])])

(***************************************************************************)
(* Specification SpecChatDiff: the diff summary of the conversation layer  *)
(* on the diffs and the change blocks of SpecDiff                          *)
(***************************************************************************)
ChatDiffCalls ==
    [op : {"ChatInterface._generate_diff_summary"},
     diff : UNION {[1..n -> DiffLines] : n \in 0..MaxDiff}, done : {FALSE}]
    \cup [op : {"ChatInterface._summarize_change_block"},
          block : UNION {[1..n -> ChangeLines] : n \in 0..MaxDiff}, done : {FALSE}]

InitChatDiff ==
    /\ call \in ChatDiffCalls
    /\ ret = None
    /\ AnalyzerIdle
    /\ ServicesIdle

ChatInterfaceGenerateDiffSummary ==
    /\ call.op = "ChatInterface._generate_diff_summary" /\ ~call.done
    /\ ret' = ChatInterface_generate_diff_summary(call.diff)
    /\ call' = [call EXCEPT !.done = TRUE]
    /\ UNCHANGED <<previous_analyses, last, recent, chats, handler>>

ChatInterfaceSummarizeChangeBlock ==
    /\ call.op = "ChatInterface._summarize_change_block" /\ ~call.done
    /\ ret' = ChatInterface_summarize_change_block(call.block)
    /\ call' = [call EXCEPT !.done = TRUE]
    /\ UNCHANGED <<previous_analyses, last, recent, chats, handler>>

NextChatDiff == ChatInterfaceGenerateDiffSummary \/ ChatInterfaceSummarizeChangeBlock

SpecChatDiff == InitChatDiff /\ [][NextChatDiff]_vars

(***************************************************************************)
(* The two diff summarizers                                                *)
(***************************************************************************)
\* C28: on every list of diff lines the diff summary of ChatInterface is the
\* list of summary lines that CodeAnalyzer._generate_diff_summary returns, and
\* on every change block the two _summarize_change_block helpers agree.
C28_SummarizersAgree ==
    /\ (call.op = "ChatInterface._generate_diff_summary" /\ call.done)
           => ret = _generate_diff_summary(call.diff)
    /\ (call.op = "ChatInterface._summarize_change_block" /\ call.done)
           => ret = _summarize_change_block(call.block)

\* C28 witness: a diff of two blocks, the first with a removed def and an added
\* import, summarised by ChatInterface in two lines.
C28_Witness ==
    /\ call.op = "ChatInterface._generate_diff_summary" /\ call.done
    /\ call.diff = <<Line("- ", "def f(:"), Line("  ", "x = 1"), Line("+ ", "x = 1")>>
    /\ ret = <<<<"Rimosso", "funzione", "f">>, <<"Modificata una linea">>>>

(***************************************************************************)
(* The chat documents of FirebaseChatPersistence.  A document holds, per   *)
(* file name, its versions under keys that are decimal strings, and the    *)
(* metadata of the file.  A string of digits is the tuple of its digits.   *)
(* The timestamps, the size, the path and the language of a version and    *)
(* the structure of the document play no part in the versioning and are    *)
(* left out.                                                               *)
(***************************************************************************)
\* str(n) of a natural number
RECURSIVE str(_)
str(n) == IF n < 10 THEN <<n>> ELSE Append(str(n \div 10), n % 10)

\* int(s) of a string of digits
RECURSIVE int(_)
int(s) == IF Len(s) = 1 THEN s[1] ELSE 10 * int(SubSeq(s, 1, Len(s) - 1)) + s[Len(s)]

\* s < t on Python strings: the first differing character decides, and a
\* proper prefix comes first
RECURSIVE StrLess(_, _)
StrLess(s, t) ==
    IF t = <<>> THEN FALSE
    ELSE IF s = <<>> THEN TRUE
         ELSE IF Head(s) # Head(t) THEN Head(s) < Head(t)
              ELSE StrLess(Tail(s), Tail(t))

\* max(d.keys()) of a dict with string keys
MaxKey(keys) == CHOOSE k \in keys : \A j \in keys : j = k \/ StrLess(j, k)

\* hashlib.md5(content.encode()).hexdigest(): equal exactly for equal contents
_generate_file_hash(content) == <<"md5", content>>

\* the document that create_chat stores
NewChat == [versions |-> <<>>, metadata |-> <<>>]

\* one round of the loop of add_files_to_chat over `files`
AddFile(file, doc) ==
    IF ~({"name", "content"} \subseteq DOMAIN file) THEN doc
    ELSE LET file_name == file.name
             content_hash == _generate_file_hash(file.content)
             known == file_name \in DOMAIN doc.versions
             latest_version == MaxKey(DOMAIN doc.versions[file_name])
         IN IF known /\ doc.versions[file_name][latest_version].hash = content_hash
            THEN doc
            ELSE LET new_version == IF known THEN str(int(latest_version) + 1) ELSE str(1)
                     file_data == [content |-> file.content, hash |-> content_hash]
                     stored == (new_version :> file_data)
                               @@ (IF known THEN doc.versions[file_name] ELSE <<>>)
                 IN [versions |-> (file_name :> stored) @@ doc.versions,
                     metadata |-> (file_name :> [current_version |-> new_version,
                                                 total_versions |-> Cardinality(DOMAIN stored)])
                                  @@ doc.metadata]

\* the loop of add_files_to_chat
RECURSIVE AddFiles(_, _)
AddFiles(files, doc) ==
    IF files = <<>> THEN doc
    ELSE LET Rest(next) == AddFiles(Tail(files), next)
         IN Strict(Rest, AddFile(Head(files), doc))

\* add_files_to_chat: the value returned and the collection after the update
add_files_to_chat(collection, chat_id, files) ==
    IF chat_id \notin DOMAIN collection THEN [ret |-> FALSE, chats |-> collection]
    ELSE [ret |-> TRUE,
          chats |-> [collection EXCEPT ![chat_id] = AddFiles(files, collection[chat_id])]]

\* get_chat_files: the `content` of the result, one entry per file from its
\* version under the greatest key (a set: a Firestore map has no order)
get_chat_files(collection, chat_id) ==
    IF chat_id \notin DOMAIN collection THEN {}
    ELSE LET versions == collection[chat_id].versions
         IN {LET latest_version == MaxKey(DOMAIN versions[file_name])
             IN [name |-> file_name, version |-> latest_version,
                 content |-> versions[file_name][latest_version].content,
                 hash |-> versions[file_name][latest_version].hash] :
             file_name \in {n \in DOMAIN versions : DOMAIN versions[n] # {}}}

(***************************************************************************)
(* Specification SpecStore: one chat document under add_files_to_chat and  *)
(* get_chat_files calls                                                    *)
(***************************************************************************)
MaxUpload == 2
MaxVersions == 12

StoredNames == {"main.py"}
StoredContents == {"x = 1", "x = 2", "x = 3"}

\* the files of an upload: dicts with a name and a content, and one without
\* a content
Uploads == [name : StoredNames, content : StoredContents] \cup [name : StoredNames]

UploadLists == UNION {[1..n -> Uploads] : n \in 0..MaxUpload}

ChatIds == {"chat", "unknown"}

InitStore ==
    /\ call = [op |-> "create_chat"]
    /\ ret = "chat"
    /\ chats = ("chat" :> NewChat)
    /\ handler = <<>>
    /\ AnalyzerIdle

AddFilesToChat(chat_id, files) ==
    \E out \in {add_files_to_chat(chats, chat_id, files)} :
       /\ \A c \in DOMAIN out.chats : \A n \in DOMAIN out.chats[c].versions :
              \A k \in DOMAIN out.chats[c].versions[n] : int(k) <= MaxVersions
       /\ chats' = out.chats
       /\ ret' = out.ret
       /\ call' = [op |-> "add_files_to_chat", chat_id |-> chat_id]
       /\ UNCHANGED <<previous_analyses, last, recent, handler>>

GetChatFiles(chat_id) ==
    /\ ret' = get_chat_files(chats, chat_id)
    /\ call' = [op |-> "get_chat_files", chat_id |-> chat_id]
    /\ UNCHANGED <<previous_analyses, last, recent, chats, handler>>

NextStore ==
    \E chat_id \in ChatIds :
        \/ \E files \in UploadLists : AddFilesToChat(chat_id, files)
        \/ GetChatFiles(chat_id)

SpecStore == InitStore /\ [][NextStore]_vars

(***************************************************************************)
(* Properties of the stored versions                                       *)
(***************************************************************************)
\* a call of add_files_to_chat keeps every stored version as it is and stores
\* a new one under a number greater than those already stored
VersionsOnlyGrow ==
    \A c \in DOMAIN chats : \A n \in DOMAIN chats'[c].versions :
        LET before == IF n \in DOMAIN chats[c].versions THEN chats[c].versions[n] ELSE <<>>
            after == chats'[c].versions[n]
        IN \A k \in DOMAIN after :
               IF k \in DOMAIN before THEN after[k] = before[k]
               ELSE \A j \in DOMAIN before : int(j) < int(k)

\* get_chat_files has returned, for each file, the content of the version
\* stored last (the current_version of its metadata)
LatestIsReturned ==
    (call.op = "get_chat_files" /\ call.chat_id \in DOMAIN chats) =>
        \A file \in ret :
            LET doc == chats[call.chat_id]
            IN file.content
               = doc.versions[file.name][doc.metadata[file.name].current_version].content

\* C29: every call of add_files_to_chat that brings changed content for a file
\* stores it under a version number one greater than every version already
\* stored, overwriting none, and get_chat_files returns for each file the
\* content of the version stored last, also from the tenth version on.
C29_VersionsGrowLatestReturned ==
    [][VersionsOnlyGrow]_vars /\ []LatestIsReturned

(***************************************************************************)
(* LLMHandler.initialize_model.  A call is the stack of its frames, one    *)
(* per (recursive) invocation, each frame being its model_name argument.   *)
(* Whether a key is missing from st.secrets and whether the lookup or the  *)
(* provider's initialize raises is the environment's choice at each        *)
(* attempt.  The debug log and the copy of the model in the session state  *)
(* are left out.                                                           *)
(***************************************************************************)
\* the provider of each model of MODELS_CONFIG
MODELS_CONFIG ==
    [m \in {"claude-3-sonnet", "gpt-4", "deepseek-chat"} |->
        [provider |-> CASE m = "claude-3-sonnet" -> "anthropic"
                        [] m = "gpt-4" -> "openai"
                        [] m = "deepseek-chat" -> "deepseek"]]

\* the keys of LLMHandler.providers
providers == {"anthropic", "deepseek"}

\* `if model_name not in MODELS_CONFIG: model_name = "claude-3-sonnet"`
Supported(model_name) ==
    IF model_name \notin DOMAIN MODELS_CONFIG THEN "claude-3-sonnet" ELSE model_name

\* the frames the interpreter allows before it raises RecursionError
MaxFrames == 4

\* a return of the innermost frame: every frame above it returns the same value
Returned(h, value) == [handler |-> [h EXCEPT !.frames = <<>>], ret |-> value]

\* the except clause of initialize_model in the innermost frame
Except(h) ==
    IF h.model_name # "claude-3-sonnet"
    THEN IF Len(h.frames) < MaxFrames
         THEN [handler |-> [h EXCEPT !.frames = Append(@, "claude-3-sonnet")], ret |-> None]
         ELSE Returned(h, "RecursionError")
    ELSE Returned(h, "False")

(***************************************************************************)
(* Specification SpecHandler: one LLMHandler from its construction on,     *)
(* under initialize_model calls                                            *)
(***************************************************************************)
ModelNames == DOMAIN MODELS_CONFIG \cup {"llama"}

\* LLMHandler.__init__ at its call of initialize_model(default_model)
InitHandler ==
    /\ \E default_model \in ModelNames :
          /\ call = [op |-> "__init__", model_name |-> default_model]
          /\ handler = [model_name |-> default_model, current_provider |-> None,
                        frames |-> <<default_model>>]
    /\ ret = None
    /\ chats = <<>>
    /\ AnalyzerIdle

Running == handler.frames # <<>>

\* the provider that the innermost frame asks for
Provider == MODELS_CONFIG[Supported(handler.frames[Len(handler.frames)])].provider

\* a call of initialize_model on the handler at rest
InitializeModel(model_name) ==
    /\ ~Running
    /\ handler' = [handler EXCEPT !.frames = <<model_name>>]
    /\ call' = [op |-> "initialize_model", model_name |-> model_name]
    /\ ret' = None
    /\ UNCHANGED <<previous_analyses, last, recent, chats>>

\* the key of the provider is missing or empty, or the provider is none of
\* anthropic and deepseek: return False
ReturnsFalse ==
    /\ Running
    /\ \E out \in {Returned(handler, "False")} : handler' = out.handler /\ ret' = out.ret
    /\ UNCHANGED <<call, previous_analyses, last, recent, chats>>

\* the provider is initialised: return True
Initialized ==
    /\ Running
    /\ Provider \in providers
    /\ handler' = [model_name |-> Supported(handler.frames[Len(handler.frames)]),
                   current_provider |-> Provider, frames |-> <<>>]
    /\ ret' = "True"
    /\ UNCHANGED <<call, previous_analyses, last, recent, chats>>

\* the lookup in st.secrets raises, or the provider's initialize does after
\* current_provider was assigned
Raises(at) ==
    /\ Running
    /\ Provider \in providers
    /\ \E out \in {Except(IF at = "initialize"
                          THEN [handler EXCEPT !.current_provider = Provider]
                          ELSE handler)} :
          handler' = out.handler /\ ret' = out.ret
    /\ UNCHANGED <<call, previous_analyses, last, recent, chats>>

NextHandler ==
    \/ \E model_name \in ModelNames : InitializeModel(model_name)
    \/ ReturnsFalse
    \/ Initialized
    \/ \E at \in {"secrets", "initialize"} : Raises(at)

SpecHandler == InitHandler /\ [][NextHandler]_vars

(***************************************************************************)
(* Properties of initialize_model                                          *)
(***************************************************************************)
\* C30: a call of initialize_model has at most two frames, the requested model
\* and one fallback to claude-3-sonnet, and it returns True or False, whatever
\* model_name the handler held before the call.
C30_FallbackAtMostOnce ==
    /\ Len(handler.frames) <= 2
    /\ ret \in {None, "True", "False"}

====
